---- MODULE Spec2Model ----
(***************************************************************************)
(* A model of rlox: the scanner's keyword recognition, the single-pass     *)
(* Pratt compiler (parser state, locals, bytecode emission, error          *)
(* recovery) and the stack VM (call frames, value stack, globals).         *)
(*                                                                         *)
(* Offsets (instruction pointers, stack slots, constant ids, string        *)
(* positions) are zero-based as in the Rust source; TLA+ sequences are     *)
(* one-based, so element i of a Rust vector v is v[i + 1] here.            *)
(* Number values are modelled by integers.                                 *)
(***************************************************************************)
EXTENDS Integers, Sequences, FiniteSets, TLC

VARIABLES
    pc,        \* position of the interpreter pipeline / of the scanner run
    source,    \* Scanner.source, a sequence of one-character strings
    scanner,   \* Scanner {start, current, line}
    scanned,   \* tokens returned by Scanner::token so far
    tokens,    \* the token stream the parser's scanner yields
    parser,    \* Parser (with its Compiler chain and Memory)
    vm,        \* VM {frames, stack, globals, memory} and its sinks
    interner,  \* StringInterner {map, vec, buf, full}, when run on its own
    result     \* InterpretResult, or "none" while running

vars == <<pc, source, scanner, scanned, tokens, parser, vm, interner, result>>

\* ------------------------------------------------------------------ bounds
MaxSourceLen == 4    \* length of the source texts scanned
MaxTokens == 3       \* length of the token streams of SpecParse
MaxClock == 1        \* the host clock returns 0..MaxClock

\* ---------------------------------------------------------------- helpers
Min(a, b) == IF a < b THEN a ELSE b
Max(a, b) == IF a > b THEN a ELSE b

\* the value of a variable the specification at hand does not use
Idle == [idle |-> TRUE]

\* Let[e, [x \in Any |-> body]] is body with x naming the value of e, as a
\* Rust `let x = e;` followed by body: e is computed once, before body.
Let[x \in Any, k \in Any] == k[x]

\* Rust slice v[a..b] of a zero-based vector
Slice(v, a, b) == SubSeq(v, a + 1, b)

\* ================================================================ scanner
NUL == "NUL"

Digits == {"0", "1", "2", "3", "4", "5", "6", "7", "8", "9"}

Letters ==
    {"a", "b", "c", "d", "e", "f", "g", "h", "i", "j", "k", "l", "m",
     "n", "o", "p", "q", "r", "s", "t", "u", "v", "w", "x", "y", "z",
     "A", "B", "C", "D", "E", "F", "G", "H", "I", "J", "K", "L", "M",
     "N", "O", "P", "Q", "R", "S", "T", "U", "V", "W", "X", "Y", "Z"}

is_ascii_digit(c) == c \in Digits

is_alpha(c) == c \in Letters \/ c = "_"

ScannerInit == [start |-> 0, current |-> 0, line |-> 1]

get_char(src, i) == IF i >= Len(src) THEN NUL ELSE src[i + 1]

peek(src, sc) == get_char(src, sc.current)

peek_next(src, sc) == get_char(src, sc.current + 1)

is_at_end(src, sc) == sc.current = Len(src)

make_token(src, sc, typ) ==
    [typ |-> typ, line |-> sc.line, slice |-> Slice(src, sc.start, sc.current)]

error_token(sc, error) == [typ |-> "Error", line |-> sc.line, slice |-> error]

check_keyword(src, sc, start, rest, typ) ==
    LET s == sc.start + start
        end == Min(Len(src), s + Len(rest))
        slice == Slice(src, s, end)
    IN IF slice = rest THEN typ ELSE "Identifier"

identifier_type(src, sc) ==
    LET c == get_char(src, sc.start)
        c1 == get_char(src, sc.start + 1)
    IN CASE c = "a" -> check_keyword(src, sc, 1, <<"n", "d">>, "And")
         [] c = "c" -> check_keyword(src, sc, 1, <<"l", "a", "s", "s">>, "Class")
         [] c = "e" -> check_keyword(src, sc, 1, <<"l", "s", "e">>, "Else")
         [] c = "f" ->
              IF sc.current - sc.start > 1
              THEN CASE c1 = "a" -> check_keyword(src, sc, 2, <<"l", "s", "e">>, "False")
                     [] c1 = "o" -> check_keyword(src, sc, 2, <<"r">>, "For")
                     [] c1 = "u" -> check_keyword(src, sc, 2, <<"n">>, "Fun")
                     [] OTHER -> "Identifier"
              ELSE "Identifier"
         [] c = "i" -> check_keyword(src, sc, 1, <<"f">>, "If")
         [] c = "n" -> check_keyword(src, sc, 1, <<"i", "l">>, "Nil")
         [] c = "o" -> check_keyword(src, sc, 1, <<"r">>, "Or")
         [] c = "p" -> check_keyword(src, sc, 1, <<"r", "i", "n", "t">>, "Print")
         [] c = "r" -> check_keyword(src, sc, 1, <<"e", "t", "u", "r", "n">>, "Return")
         [] c = "s" -> check_keyword(src, sc, 1, <<"u", "p", "e", "r">>, "Super")
         [] c = "t" ->
              IF sc.current - sc.start > 1
              THEN CASE c1 = "h" -> check_keyword(src, sc, 2, <<"i", "s">>, "This")
                     [] c1 = "r" -> check_keyword(src, sc, 2, <<"u", "e">>, "True")
                     [] OTHER -> "Identifier"
              ELSE "Identifier"
         [] c = "v" -> check_keyword(src, sc, 1, <<"a", "r">>, "Var")
         [] c = "w" -> check_keyword(src, sc, 1, <<"h", "i", "l", "e">>, "While")
         [] OTHER -> "Identifier"

\* Scanner::advance: only the position moves; the callers below read the
\* character with get_char(src, sc.current - 1) where they need it.
scanner_advance(sc) == [sc EXCEPT !.current = @ + 1]

RECURSIVE skip_comment(_, _)
skip_comment(src, sc) ==
    IF peek(src, sc) # "\n" /\ ~is_at_end(src, sc)
    THEN skip_comment(src, scanner_advance(sc))
    ELSE sc

RECURSIVE skip_whitespace(_, _)
skip_whitespace(src, sc) ==
    LET c == peek(src, sc)
    IN CASE c \in {" ", "\r", "\t"} -> skip_whitespace(src, scanner_advance(sc))
         [] c = "\n" ->
              skip_whitespace(src, scanner_advance([sc EXCEPT !.line = @ + 1]))
         [] c = "/" ->
              IF peek_next(src, sc) # "/"
              THEN sc
              ELSE skip_whitespace(src, skip_comment(src, sc))
         [] OTHER -> sc

RECURSIVE identifier_loop(_, _)
identifier_loop(src, sc) ==
    IF is_alpha(peek(src, sc)) \/ is_ascii_digit(peek(src, sc))
    THEN identifier_loop(src, scanner_advance(sc))
    ELSE sc

identifier(src, sc) ==
    LET sc1 == identifier_loop(src, sc)
    IN [sc |-> sc1, tok |-> make_token(src, sc1, identifier_type(src, sc1))]

RECURSIVE digits_loop(_, _)
digits_loop(src, sc) ==
    IF is_ascii_digit(peek(src, sc))
    THEN digits_loop(src, scanner_advance(sc))
    ELSE sc

number(src, sc) ==
    LET sc1 == digits_loop(src, sc)
        sc2 == IF peek(src, sc1) = "." /\ is_ascii_digit(peek_next(src, sc1))
               THEN digits_loop(src, scanner_advance(sc1))
               ELSE sc1
    IN [sc |-> sc2, tok |-> make_token(src, sc2, "Number")]

RECURSIVE string_loop(_, _)
string_loop(src, sc) ==
    IF peek(src, sc) # "\"" /\ ~is_at_end(src, sc)
    THEN string_loop(src, scanner_advance(
             IF peek(src, sc) = "\n" THEN [sc EXCEPT !.line = @ + 1] ELSE sc))
    ELSE sc

string(src, sc) ==
    LET sc1 == string_loop(src, sc)
    IN IF is_at_end(src, sc1)
       THEN [sc |-> sc1, tok |-> error_token(sc1, "Unterminated string")]
       ELSE LET sc2 == scanner_advance(sc1)
            IN [sc |-> sc2, tok |-> make_token(src, sc2, "String")]

match_char(src, sc, expected) ==
    ~(is_at_end(src, sc) \/ get_char(src, sc.current) # expected)

token_if_match(src, sc, expected, if_present, if_absent) ==
    IF match_char(src, sc, expected)
    THEN LET sc1 == scanner_advance(sc)
         IN [sc |-> sc1, tok |-> make_token(src, sc1, if_present)]
    ELSE [sc |-> sc, tok |-> make_token(src, sc, if_absent)]

Punctuation ==
    [c \in {"(", ")", "{", "}", ";", ",", ".", "-", "+", "/", "*"} |->
        CASE c = "(" -> "LeftParen"
          [] c = ")" -> "RightParen"
          [] c = "{" -> "LeftBrace"
          [] c = "}" -> "RightBrace"
          [] c = ";" -> "SemiColon"
          [] c = "," -> "Comma"
          [] c = "." -> "Dot"
          [] c = "-" -> "Minus"
          [] c = "+" -> "Plus"
          [] c = "/" -> "Slash"
          [] c = "*" -> "Star"]

\* Scanner::token: the scanner after the call and the token returned
scanner_token(src, sc0) ==
    LET scw == skip_whitespace(src, sc0)
        scs == [scw EXCEPT !.start = scw.current]
    IN IF is_at_end(src, scs)
       THEN [sc |-> scs, tok |-> make_token(src, scs, "EOF")]
       ELSE LET sc == scanner_advance(scs)
                c == get_char(src, sc.current - 1)
            IN CASE is_ascii_digit(c) -> number(src, sc)
                 [] is_alpha(c) -> identifier(src, sc)
                 [] c \in DOMAIN Punctuation ->
                      [sc |-> sc, tok |-> make_token(src, sc, Punctuation[c])]
                 [] c = "!" -> token_if_match(src, sc, "=", "BangEqual", "Bang")
                 [] c = "=" -> token_if_match(src, sc, "=", "EqualEqual", "Equal")
                 [] c = "<" -> token_if_match(src, sc, "=", "LessEqual", "Less")
                 [] c = ">" -> token_if_match(src, sc, "=", "GreaterEqual", "Greater")
                 [] c = "\"" -> string(src, sc)
                 [] OTHER -> [sc |-> sc, tok |-> error_token(sc, "Unexpected character")]

\* The keyword table of the language (spec section 4.1): <<type, lexeme>>
Keywords ==
    {<<"And", <<"a", "n", "d">>>>, <<"Class", <<"c", "l", "a", "s", "s">>>>,
     <<"Else", <<"e", "l", "s", "e">>>>, <<"False", <<"f", "a", "l", "s", "e">>>>,
     <<"For", <<"f", "o", "r">>>>, <<"Fun", <<"f", "u", "n">>>>,
     <<"If", <<"i", "f">>>>, <<"Nil", <<"n", "i", "l">>>>, <<"Or", <<"o", "r">>>>,
     <<"Print", <<"p", "r", "i", "n", "t">>>>,
     <<"Return", <<"r", "e", "t", "u", "r", "n">>>>,
     <<"Super", <<"s", "u", "p", "e", "r">>>>, <<"This", <<"t", "h", "i", "s">>>>,
     <<"True", <<"t", "r", "u", "e">>>>, <<"Var", <<"v", "a", "r">>>>,
     <<"While", <<"w", "h", "i", "l", "e">>>>}

KeywordTypes == {k[1] : k \in Keywords}

\* ================================================================= chunk
\* OpCode, #[repr(u8)]: the byte of an opcode is its position in the enum
OpCodes ==
    <<"Constant", "Nil", "True", "False", "Equal", "Greater", "Less", "Add",
      "Subtract", "Multiply", "Divide", "Not", "Negate", "Return", "Print",
      "Pop", "DefineGlobal", "GetGlobal", "SetGlobal", "GetLocal", "SetLocal",
      "JumpIfFalse", "Jump", "Loop", "Call", "Closure">>

\* `op as u8`
Op(name) == (CHOOSE i \in 1..Len(OpCodes) : OpCodes[i] = name) - 1

\* OpCode::try_from(u8): <<>> is Err, <<name>> is Ok(name)
OpCodeTryFrom(byte) ==
    IF byte < Len(OpCodes) THEN <<OpCodes[byte + 1]>> ELSE <<>>

U8Max == 255
U16Max == 65535

ChunkNew == [code |-> <<>>, constants |-> <<>>, lines |-> <<>>]

ChunkWrite(chunk, byte, line) ==
    [chunk EXCEPT !.code = Append(@, byte), !.lines = Append(@, line)]

\* ================================================================ values
Nil == [t |-> "Nil"]
Bool(b) == [t |-> "Bool", v |-> b]
Number(n) == [t |-> "Number", v |-> n]
\* a String holds a &'static str: `ref` is the interned storage it points to
\* (the entry of the interner), `v` the content it reads there
String(s, ref) == [t |-> "String", v |-> s, ref |-> ref]
StringId(id) == [t |-> "StringId", v |-> id]
Function(id) == [t |-> "Function", v |-> id]
Closure(id) == [t |-> "Closure", v |-> id]
NativeFunction(id) == [t |-> "NativeFunction", v |-> id]

\* #[derive(PartialEq)] on Value: same variant and equal payload (two &str
\* are equal when their contents are)
ValueEq(a, b) == a.t = b.t /\ (IF a.t = "String" THEN a.v = b.v ELSE a = b)

\* ================================================================ memory
\* StringInterner::intern: the id of the content, and the interner after it
Intern(strings, name) ==
    IF \E i \in 1..Len(strings) : strings[i] = name
    THEN [strings |-> strings,
          id |-> (CHOOSE i \in 1..Len(strings) : strings[i] = name) - 1]
    ELSE [strings |-> Append(strings, name), id |-> Len(strings)]

MemoryNew == [strings |-> <<>>, functions |-> <<>>, natives |-> <<>>,
              closures |-> <<>>]

\* Memory::new_function: the memory after it (the new id is the old length)
MemNewFunction(mem, name) ==
    LET r == Intern(mem.strings, name)
    IN [mem EXCEPT !.strings = r.strings,
                   !.functions = Append(@, [arity |-> 0, chunk |-> ChunkNew,
                                            name |-> r.id])]

\* Memory::new_closure storing the closure in the last entry, if there is
\* one, instead of pushing it
MemNewClosureInPlace(mem, function) ==
    IF mem.closures = <<>>
    THEN [mem EXCEPT !.closures = Append(@, [function |-> function])]
    ELSE [mem EXCEPT !.closures[Len(mem.closures)] = [function |-> function]]

MemNewClosure(mem, function) ==
    [mem EXCEPT !.closures = Append(@, [function |-> function])]

MemNewNative(mem, name) ==
    LET r == Intern(mem.strings, name)
    IN [mem EXCEPT !.strings = r.strings,
                   !.natives = Append(@, [name |-> r.id])]

\* ================================================================ parser
\* Tokens of the parser's scanner: [typ, line, slice], slice a sequence of
\* characters.  Option<T> is <<>> (None) or <<x>> (Some(x)).
EOFToken(line) == [typ |-> "EOF", line |-> line, slice |-> <<>>]

\* Scanner::token as the parser sees it: the next token of the stream, and
\* EOF for ever once the stream is exhausted
stream_token(sc) ==
    IF sc.current < Len(sc.source)
    THEN [sc |-> [sc EXCEPT !.current = @ + 1], tok |-> sc.source[sc.current + 1]]
    ELSE [sc |-> sc,
          tok |-> EOFToken(IF sc.source = <<>> THEN 1
                           ELSE sc.source[Len(sc.source)].line)]

ScriptName == <<"<", "s", "c", "r", "i", "p", "t", ">">>

\* Parser::new
ParserNew(toks) ==
    [scanner |-> [source |-> toks, current |-> 0],
     memory |-> MemNewFunction(MemoryNew, ScriptName),
     compiler |-> [enclosing |-> <<>>, function |-> 0,
                   function_type |-> "Script", locals |-> <<>>,
                   scope_depth |-> 0,
                   marks |-> <<>>,    \* history: the locals at each begin_scope
                   names |-> <<>>,    \* history: the names each open scope added
                   initializing |-> <<>>],  \* history: the local whose
                                            \* initializer is being compiled
     current |-> <<>>,
     previous |-> <<>>,
     had_error |-> FALSE,
     panic_mode |-> FALSE,
     compiler_error |-> <<>>,
     events |-> <<>>,     \* history: every error call and every synchronize
     hung |-> FALSE,      \* a call of synchronize that does not return
     synced |-> FALSE,    \* history: the last declaration ended in synchronize
     stmts |-> {},        \* history: the code span of every statement compiled
     logic |-> {},        \* history: the code of every `and` / `or` compiled
     loops |-> {},        \* history: the code of every `for` compiled
     jumps |-> {},        \* history: every forward jump patched, and where to
     back_jumps |-> {},   \* history: every Loop emitted, and where to
     ifs |-> {},          \* history: the code of every `if` compiled
     scope_exits |-> {},  \* history: every scope exited
     declarations |-> {}, \* history: every call of declare_variable
     resolutions |-> {},  \* history: every call of resolve_local
     references |-> {},   \* history: every call of named_variable
     functions |-> {},    \* history: every call of function()
     definitions |-> {},  \* history: every local a var declaration defined
     max_locals |-> 0,    \* history: the longest a locals list has been
     decls |-> {}]        \* history: every local declared, where and which slot

current(p) == p.current[1]
previous(p) == p.previous[1]

\* print_error, as one record per report appended to the compiler_error sink
print_error(token, message) ==
    [line |-> token.line,
     at |-> CASE token.typ = "EOF" -> "end"
              [] token.typ = "Error" -> "none"
              [] OTHER -> "lexeme",
     message |-> message]

\* error / error_at_current without the early return on panic_mode
ReportError_unguarded(p, token, message) ==
    [p EXCEPT !.panic_mode = TRUE,
              !.compiler_error = Append(@, print_error(token, message)),
              !.had_error = TRUE]

\* The body error_at_current and error share
ReportError(p, token, message) ==
    IF p.panic_mode
    THEN p
    ELSE [p EXCEPT !.panic_mode = TRUE,
                   !.compiler_error = Append(@, print_error(token, message)),
                   !.had_error = TRUE]

\* History: the call that took the parser from p to q, whether it wrote to
\* the sink, and the flags it left.  (No effect on the compilation.)
LogEvent(p, q, kind) ==
    [q EXCEPT !.events = Append(@,
        [kind |-> kind,
         wrote |-> Len(q.compiler_error) - Len(p.compiler_error),
         panic_mode |-> q.panic_mode,
         had_error |-> q.had_error])]

error_at_current(p, message) ==
    LogEvent(p, ReportError(p, current(p), message), "error")

error(p, message) ==
    LogEvent(p, ReportError(p, previous(p), message), "error")

RECURSIVE advance_loop(_)
advance_loop(p) ==
    Let[stream_token(p.scanner), [r \in Any |->
    Let[[p EXCEPT !.scanner = r.sc, !.current = <<r.tok>>], [p1 \in Any |->
        IF r.tok.typ # "Error"
        THEN p1
        ELSE advance_loop(error_at_current(p1, r.tok.slice))]]]]

advance(p) == advance_loop([p EXCEPT !.previous = p.current, !.current = <<>>])

check(p, typ) == current(p).typ = typ

consume(p, typ, message) ==
    IF p.current # <<>> /\ current(p).typ = typ
    THEN advance(p)
    ELSE error_at_current(p, message)

\* ---------------------------------------------------------------- emission
chunk(p) == p.memory.functions[p.compiler.function + 1].chunk

emit_byte(p, byte) ==
    [p EXCEPT !.memory.functions[p.compiler.function + 1].chunk =
                  ChunkWrite(@, byte, previous(p).line)]

emit_op_code(p, op_code) == emit_byte(p, Op(op_code))

emit_bytes(p, a, b) ==
    Let[emit_byte(p, a), [p1 \in Any |-> emit_byte(p1, b)]]

emit_short(p, short) ==
    Let[emit_byte(p, (short \div 256) % 256), [p1 \in Any |->
        emit_byte(p1, short % 256)]]

emit_return(p) ==
    Let[emit_op_code(p, "Nil"), [p1 \in Any |-> emit_op_code(p1, "Return")]]

\* the parser after emit_jump; the offset it returns is Len(code) - 2
emit_jump(p, instruction) ==
    Let[emit_op_code(p, instruction), [p1 \in Any |->
    Let[emit_byte(p1, 255), [p2 \in Any |->
        emit_byte(p2, 255)]]]]

\* History: the jump whose operand is at `offset` was patched to land on the
\* present end of the code.  (No effect on the code.)
LogJump(p, offset) ==
    [p EXCEPT !.jumps = @ \cup {[function |-> p.compiler.function,
                                 at |-> offset - 1,
                                 target |-> Len(chunk(p).code)]}]

\* patch_jump measuring the distance from the first byte of the operand
patch_jump_from_operand(p, offset) ==
    Let[Len(chunk(p).code) - offset, [jump \in Any |->
    Let[IF jump > U16Max THEN error(p, "Too much code to jump over") ELSE p,
        [p1 \in Any |->
        LogJump([p1 EXCEPT !.memory.functions[p.compiler.function + 1].chunk.code =
                    [@ EXCEPT ![offset + 1] = (jump \div 256) % 256,
                              ![offset + 2] = jump % 256]], offset)]]]]

patch_jump(p, offset) ==
    Let[Len(chunk(p).code) - offset - 2, [jump \in Any |->
    Let[IF jump > U16Max THEN error(p, "Too much code to jump over") ELSE p,
        [p1 \in Any |->
        LogJump([p1 EXCEPT !.memory.functions[p.compiler.function + 1].chunk.code =
                    [@ EXCEPT ![offset + 1] = (jump \div 256) % 256,
                              ![offset + 2] = jump % 256]], offset)]]]]

\* emit_loop refusing a distance of 0xFFFF as well
emit_loop_inclusive(p, start) ==
    Let[emit_op_code(p, "Loop"), [p1 \in Any |->
    Let[Len(chunk(p1).code) - start + 2, [offset \in Any |->
    Let[IF offset >= U16Max THEN error(p1, "Loop body too large") ELSE p1,
        [p2 \in Any |->
        emit_short(p2, offset % 65536)]]]]]]

\* History: the Loop instruction at offset `at` was emitted to go back to
\* `start`.  (No effect on the code.)
LogBackJump(p, at, start) ==
    [p EXCEPT !.back_jumps = @ \cup {[function |-> p.compiler.function,
                                      at |-> at, start |-> start]}]

\* emit_loop measuring the distance from the first byte of the operand
emit_loop_from_operand(p, start) ==
    Let[emit_op_code(p, "Loop"), [p1 \in Any |->
    Let[Len(chunk(p1).code) - start, [offset \in Any |->
    Let[IF offset > U16Max THEN error(p1, "Loop body too large") ELSE p1,
        [p2 \in Any |->
        LogBackJump(emit_short(p2, offset % 65536), Len(chunk(p).code), start)
    ]]]]]]

emit_loop(p, start) ==
    Let[emit_op_code(p, "Loop"), [p1 \in Any |->
    Let[Len(chunk(p1).code) - start + 2, [offset \in Any |->
    Let[IF offset > U16Max THEN error(p1, "Loop body too large") ELSE p1,
        [p2 \in Any |->
        LogBackJump(emit_short(p2, offset % 65536), Len(chunk(p).code), start)
    ]]]]]]

\* Parser::make_constant refusing the index 255 as well
make_constant_inclusive(p, value) ==
    Let[Len(chunk(p).constants), [c \in Any |->
    Let[[p EXCEPT !.memory.functions[p.compiler.function + 1].chunk.constants
                      = Append(@, value)], [p1 \in Any |->
        IF c >= U8Max
        THEN [p |-> error(p1, "Too many constants in one chunk"), c |-> 0]
        ELSE [p |-> p1, c |-> c]]]]]

\* Parser::make_constant: [p, c], c the operand byte
make_constant(p, value) ==
    Let[Len(chunk(p).constants), [c \in Any |->
    Let[[p EXCEPT !.memory.functions[p.compiler.function + 1].chunk.constants
                      = Append(@, value)], [p1 \in Any |->
        IF c > U8Max
        THEN [p |-> error(p1, "Too many constants in one chunk"), c |-> 0]
        ELSE [p |-> p1, c |-> c]]]]]

emit_constant(p, value) ==
    Let[make_constant(p, value), [r \in Any |->
        emit_bytes(r.p, Op("Constant"), r.c)]]

make_string_id(p, str) ==
    Let[Intern(p.memory.strings, str), [r \in Any |->
        [p |-> [p EXCEPT !.memory.strings = r.strings],
         value |-> StringId(r.id)]]]

\* Parser::make_string storing a copy of its own for every literal
make_string_copied(p, str) ==
    [p |-> [p EXCEPT !.memory.strings = Append(@, str)],
     value |-> String(str, Len(p.memory.strings))]

make_string(p, str) ==
    Let[Intern(p.memory.strings, str), [r \in Any |->
        [p |-> [p EXCEPT !.memory.strings = r.strings], value |-> String(str, r.id)]]]

identifier_constant(p, token) ==
    Let[make_string_id(p, token.slice), [r \in Any |->
        make_constant(r.p, r.value)]]

\* ------------------------------------------------------------------ scopes
Uninitialized == <<>>
Initialized(d) == <<d>>

\* (marks is history: the locals list as it was when each open scope began;
\* names is history: the names of the locals each open scope has added)
begin_scope(p) ==
    [p EXCEPT !.compiler.scope_depth = @ + 1,
              !.compiler.marks = Append(@, p.compiler.locals),
              !.compiler.names = Append(@, {})]

\* the locals counted by the take_while of end_scope, newest first
RECURSIVE CountScopeLocals(_, _)
CountScopeLocals(locals, depth) ==
    IF locals = <<>> THEN 0
    ELSE Let[locals[Len(locals)], [l \in Any |->
             IF l.depth = Uninitialized \/ l.depth[1] >= depth
             THEN 1 + CountScopeLocals(SubSeq(locals, 1, Len(locals) - 1), depth)
             ELSE 0]]

RECURSIVE PopLocals(_, _)
PopLocals(p, n) ==
    IF n = 0 THEN p
    ELSE Let[emit_op_code(p, "Pop"), [p1 \in Any |->
         Let[[p1 EXCEPT !.compiler.locals = SubSeq(@, 1, Len(@) - 1)],
             [p2 \in Any |->
             PopLocals(p2, n - 1)]]]]

\* History: the exit of a scope, with the locals before and after it, the
\* locals the enclosing scopes held when it began, and the code emitted for
\* it.  (No effect on the compiler.)
LogScopeExit(p0, p) ==
    IF p0.compiler.marks = <<>> THEN p
    ELSE [p EXCEPT
            !.compiler.marks = SubSeq(@, 1, Len(@) - 1),
            !.compiler.names = SubSeq(@, 1, Len(@) - 1),
            !.scope_exits = @ \cup
                {[function |-> p.compiler.function,
                  before |-> p0.compiler.locals,
                  enclosing |-> p0.compiler.marks[Len(p0.compiler.marks)],
                  after |-> p.compiler.locals,
                  emitted |-> SubSeq(chunk(p).code, Len(chunk(p0).code) + 1,
                                     Len(chunk(p).code))]}]

end_scope(p) ==
    Let[CountScopeLocals(p.compiler.locals, p.compiler.scope_depth),
        [to_pop \in Any |->
    Let[[p EXCEPT !.compiler.scope_depth = @ - 1], [p1 \in Any |->
        LogScopeExit(p, PopLocals(p1, to_pop))]]]]

\* History: the name of a local pushed, noted in the scope that is open
NoteName(names, name) ==
    IF names = <<>> THEN names
    ELSE [names EXCEPT ![Len(names)] = @ \cup {name.slice}]

\* (max_locals is history: the longest the locals list of a compiler was)
add_local(p, name) ==
    IF Len(p.compiler.locals) = U8Max
    THEN error(p, "Too many local variables in function")
    ELSE [p EXCEPT !.compiler.locals =
                       Append(@, [name |-> name, depth |-> Uninitialized]),
                   !.compiler.names = NoteName(@, name),
                   !.max_locals = Max(@, Len(p.compiler.locals) + 1)]

\* the take_while(...).any(...) of declare_variable, newest first: a local is
\* met when every local from it to the newest passes the take_while
ExistingInScope(locals, depth, name) ==
    \E i \in 1..Len(locals) :
        /\ locals[i].name.slice = name.slice
        /\ \A j \in i..Len(locals) :
               /\ locals[j].depth # Uninitialized
               /\ locals[j].depth[1] >= depth

\* History: a call of declare_variable that took the parser from p, through
\* p1 after the search for the name, to p2: whether a local of the scope that
\* is open, or of a scope enclosing it in the function, had the name, whether
\* the search called error, and how many locals were pushed.  (No effect on
\* the compilation.)
LogDeclaration(p, p1, p2) ==
    Let[p.compiler.names, [names \in Any |->
    Let[previous(p).slice, [slice \in Any |->
    [p2 EXCEPT !.declarations = @ \cup
        {[nth |-> Cardinality(@),
          function |-> p.compiler.function,
          depth |-> p.compiler.scope_depth,
          name |-> slice,
          same_scope |-> names # <<>> /\ slice \in names[Len(names)],
          outer_scope |-> \E i \in 1..Len(names) - 1 : slice \in names[i],
          refused |-> Len(p1.events) > Len(p.events),
          pushed |-> Len(p2.compiler.locals) - Len(p.compiler.locals),
          newest |-> /\ p2.compiler.locals # <<>>
                     /\ p2.compiler.locals[Len(p2.compiler.locals)].name.slice
                            = slice,
          was_full |-> Len(p.compiler.locals) = U8Max]}]]]]]

declare_variable(p) ==
    IF p.compiler.scope_depth = 0
    THEN LogDeclaration(p, p, p)
    ELSE Let[previous(p), [name \in Any |->
         Let[IF ExistingInScope(p.compiler.locals, p.compiler.scope_depth, name)
             THEN error(p, "A variable with this name already exists in this scope")
             ELSE p, [p1 \in Any |->
             LogDeclaration(p, p1, add_local(p1, name))]]]]

mark_initialized(p) ==
    IF p.compiler.scope_depth = 0
    THEN p
    ELSE IF p.compiler.locals = <<>>
         THEN p
         ELSE [p EXCEPT !.compiler.locals[Len(p.compiler.locals)].depth =
                            Initialized(p.compiler.scope_depth)]

\* define_variable without the call of mark_initialized
define_variable_unmarked(p, addr) ==
    IF p.compiler.scope_depth > 0
    THEN p
    ELSE emit_bytes(p, Op("DefineGlobal"), addr)

define_variable(p, addr) ==
    IF p.compiler.scope_depth > 0
    THEN mark_initialized(p)
    ELSE emit_bytes(p, Op("DefineGlobal"), addr)

\* Parser::parse_variable: [p, c]
parse_variable(p, message) ==
    Let[consume(p, "Identifier", message), [p1 \in Any |->
    Let[declare_variable(p1), [p2 \in Any |->
        IF p2.compiler.scope_depth > 0
        THEN [p |-> p2, c |-> 0]
        ELSE identifier_constant(p2, previous(p2))]]]]

\* History: a call of resolve_local(name) that took the parser from p to q
\* and returned arg: whether the name is that of the local whose initializer
\* is being compiled, whether error was called, and which locals were
\* Uninitialized.  (No effect on the compilation.)
LogResolution(p, q, name, arg) ==
    [q EXCEPT !.resolutions = @ \cup
        {[nth |-> Cardinality(@),
          function |-> p.compiler.function,
          name |-> name.slice,
          arg |-> arg,
          initializing |-> p.compiler.initializing,
          refused |-> Len(q.events) > Len(p.events),
          uninitialized |-> {i \in 1..Len(p.compiler.locals) :
                                p.compiler.locals[i].depth = Uninitialized},
          locals |-> Len(p.compiler.locals)]}]

\* resolve_local searching the locals of the enclosing function as well
resolve_local_enclosing(p, name) ==
    Let[IF p.compiler.enclosing = <<>> THEN p.compiler.locals
        ELSE p.compiler.enclosing[1].locals \o p.compiler.locals,
        [locals \in Any |->
    Let[{i \in 1..Len(locals) : locals[i].name.slice = name.slice},
        [found \in Any |->
        IF found = {}
        THEN [p |-> LogResolution(p, p, name, <<>>), arg |-> <<>>]
        ELSE Let[CHOOSE j \in found : \A k \in found : k <= j, [i \in Any |->
                 [p |-> LogResolution(p, p, name, <<(i - 1) % 256>>),
                  arg |-> <<(i - 1) % 256>>]]]]]]]

\* Parser::resolve_local: [p, arg], arg = <<>> (None) or <<slot as u8>>
resolve_local(p, name) ==
    Let[p.compiler.locals, [locals \in Any |->
    Let[{i \in 1..Len(locals) : locals[i].name.slice = name.slice},
        [found \in Any |->
        IF found = {}
        THEN [p |-> LogResolution(p, p, name, <<>>), arg |-> <<>>]
        ELSE Let[CHOOSE j \in found : \A k \in found : k <= j, [i \in Any |->
                 [p |-> LogResolution(p,
                            IF locals[i].depth = Uninitialized
                            THEN error(p, "Can't read local variable in its own initializer")
                            ELSE p,
                            name, <<(i - 1) % 256>>),
                  arg |-> <<(i - 1) % 256>>]]]]]]]

\* ------------------------------------------------------------ parse rules
\* enum Precedence, in declaration order (derive(PartialOrd))
Precedences ==
    <<"None", "Assignment", "Or", "And", "Equality", "Comparison", "Term",
      "Factor", "Unary", "Call", "Primary">>

Prec(name) == (CHOOSE i \in 1..Len(Precedences) : Precedences[i] = name) - 1

\* Precedence::next
PrecNext(n) == IF n = Prec("Primary") THEN n ELSE n + 1

\* get_rule(typ).precedence
RulePrecedence(typ) ==
    CASE typ = "LeftParen" -> Prec("Call")
      [] typ \in {"Minus", "Plus"} -> Prec("Term")
      [] typ \in {"Slash", "Star"} -> Prec("Factor")
      [] typ \in {"BangEqual", "EqualEqual"} -> Prec("Equality")
      [] typ \in {"Greater", "GreaterEqual", "Less", "LessEqual"} -> Prec("Comparison")
      [] typ = "And" -> Prec("And")
      [] typ = "Or" -> Prec("Or")
      [] OTHER -> Prec("None")

\* get_rule(typ).prefix, by the name of the method it calls ("" for None)
RulePrefix(typ) ==
    CASE typ = "LeftParen" -> "grouping"
      [] typ \in {"Minus", "Bang"} -> "unary"
      [] typ = "Identifier" -> "variable"
      [] typ = "String" -> "string"
      [] typ = "Number" -> "number"
      [] typ \in {"False", "Nil", "True"} -> "literal"
      [] OTHER -> ""

\* get_rule(typ).infix
RuleInfix(typ) ==
    CASE typ = "LeftParen" -> "call"
      [] typ \in {"Minus", "Plus", "Slash", "Star", "BangEqual", "EqualEqual",
                  "Greater", "GreaterEqual", "Less", "LessEqual"} -> "binary"
      [] typ = "And" -> "and"
      [] typ = "Or" -> "or"
      [] OTHER -> ""

DigitChars == <<"0", "1", "2", "3", "4", "5", "6", "7", "8", "9">>

DigitValue(c) == CHOOSE i \in 0..9 : DigitChars[i + 1] = c

\* str::parse::<f64> on the integer literals the token streams contain
RECURSIVE ParseNumber(_)
ParseNumber(slice) ==
    IF slice = <<>> THEN 0
    ELSE 10 * ParseNumber(SubSeq(slice, 1, Len(slice) - 1))
         + DigitValue(slice[Len(slice)])

\* str::trim_matches('"')
RECURSIVE TrimQuotes(_)
TrimQuotes(slice) ==
    IF slice # <<>> /\ slice[1] = "\"" THEN TrimQuotes(Tail(slice))
    ELSE IF slice # <<>> /\ slice[Len(slice)] = "\""
         THEN TrimQuotes(SubSeq(slice, 1, Len(slice) - 1))
         ELSE slice

\* ------------------------------------------------------------- expressions
RECURSIVE parse_precedence(_, _), infix_loop(_, _), prefix_rule(_, _, _),
          infix_rule(_, _), argument_loop(_, _)

expression(p) == parse_precedence(p, Prec("Assignment"))

number_literal(p) ==
    emit_constant(p, Number(ParseNumber(previous(p).slice)))

string_literal(p) ==
    Let[make_string(p, TrimQuotes(previous(p).slice)), [r \in Any |->
        emit_constant(r.p, r.value)]]

literal(p) ==
    CASE previous(p).typ = "False" -> emit_op_code(p, "False")
      [] previous(p).typ = "Nil" -> emit_op_code(p, "Nil")
      [] previous(p).typ = "True" -> emit_op_code(p, "True")
      [] OTHER -> p

grouping(p) ==
    Let[expression(p), [p1 \in Any |->
        consume(p1, "RightParen", "Expect ')' after expression")]]

unary(p) ==
    Let[previous(p).typ, [op_type \in Any |->
    Let[parse_precedence(p, Prec("Unary")), [p1 \in Any |->
        CASE op_type = "Minus" -> emit_op_code(p1, "Negate")
          [] op_type = "Bang" -> emit_op_code(p1, "Not")
          [] OTHER -> p1]]]]

binary(p) ==
    Let[previous(p).typ, [op_type \in Any |->
    Let[parse_precedence(p, PrecNext(RulePrecedence(op_type))), [p1 \in Any |->
        CASE op_type = "BangEqual" -> emit_bytes(p1, Op("Equal"), Op("Not"))
          [] op_type = "EqualEqual" -> emit_op_code(p1, "Equal")
          [] op_type = "Greater" -> emit_op_code(p1, "Greater")
          [] op_type = "GreaterEqual" -> emit_bytes(p1, Op("Less"), Op("Not"))
          [] op_type = "Less" -> emit_op_code(p1, "Less")
          [] op_type = "LessEqual" -> emit_bytes(p1, Op("Greater"), Op("Not"))
          [] op_type = "Plus" -> emit_op_code(p1, "Add")
          [] op_type = "Minus" -> emit_op_code(p1, "Subtract")
          [] op_type = "Star" -> emit_op_code(p1, "Multiply")
          [] op_type = "Slash" -> emit_op_code(p1, "Divide")
          [] OTHER -> p1]]]]

\* r is what resolve_local returns; g, made only when it returns None, is
\* what identifier_constant returns
\* the locals of the functions that enclose the one being compiled
RECURSIVE EnclosingLocals(_)
EnclosingLocals(compiler) ==
    IF compiler.enclosing = <<>> THEN <<>>
    ELSE compiler.enclosing[1].locals \o EnclosingLocals(compiler.enclosing[1])

\* History: a call of named_variable(name) that took the parser from p to q:
\* the locals of the function being compiled and of its enclosing functions
\* that have the name, and the instruction emitted for the name, with the
\* constant its operand names in the chunk, and the strings interned.  (No
\* effect on the compilation.)
LogReference(p, q, name) ==
    Let[chunk(q), [c \in Any |->
    Let[p.compiler.locals, [locals \in Any |->
    Let[EnclosingLocals(p.compiler), [outer \in Any |->
    [q EXCEPT !.references = @ \cup
        {[nth |-> Cardinality(@),
          function |-> p.compiler.function,
          name |-> name.slice,
          own |-> {i \in 1..Len(locals) : locals[i].name.slice = name.slice},
          enclosing |-> \E i \in 1..Len(outer) :
                            outer[i].name.slice = name.slice,
          op |-> OpCodeTryFrom(c.code[Len(c.code) - 1]),
          operand |-> c.code[Len(c.code)],
          constant |-> IF c.code[Len(c.code)] < Len(c.constants)
                       THEN <<c.constants[c.code[Len(c.code)] + 1]>>
                       ELSE <<>>,
          strings |-> q.memory.strings]}]]]]]]]

named_variable(p, name, can_assign) ==
    Let[resolve_local(p, name), [r \in Any |->
    Let[r.arg # <<>>, [local \in Any |->
    Let[IF local THEN [p |-> r.p, c |-> r.arg[1]]
        ELSE identifier_constant(r.p, name), [g \in Any |->
    Let[IF local THEN "GetLocal" ELSE "GetGlobal", [get \in Any |->
    Let[IF local THEN "SetLocal" ELSE "SetGlobal", [set \in Any |->
        IF can_assign /\ check(g.p, "Equal")
        THEN Let[advance(g.p), [p1 \in Any |->
             Let[expression(p1), [p2 \in Any |->
                 LogReference(p, emit_bytes(p2, Op(set), g.c), name)]]]]
        ELSE LogReference(p, emit_bytes(g.p, Op(get), g.c), name)]]]]]]]]]]

variable(p, can_assign) == named_variable(p, previous(p), can_assign)

\* History: an `and` / `or` whose JumpIfFalse is at offset `at` and whose
\* right operand compiled to the code [rhs, end).  (No effect on the code.)
LogLogic(p, kind, at, rhs) ==
    IF p.hung THEN p
    ELSE [p EXCEPT !.logic = @ \cup
             {[function |-> p.compiler.function, kind |-> kind, at |-> at,
               rhs |-> rhs, end |-> Len(chunk(p).code)]}]

\* Parser::and with the jump patched before the right operand is compiled
and_patched_early(p) ==
    Let[emit_jump(p, "JumpIfFalse"), [p1 \in Any |->
    Let[Len(chunk(p1).code) - 2, [end_jump \in Any |->
    Let[patch_jump(p1, end_jump), [p2 \in Any |->
    Let[emit_op_code(p2, "Pop"), [p3 \in Any |->
    Let[parse_precedence(p3, Prec("And")), [p4 \in Any |->
        LogLogic(p4, "And", end_jump - 1, Len(chunk(p3).code))]]]]]]]]]]

and_(p) ==
    Let[emit_jump(p, "JumpIfFalse"), [p1 \in Any |->
    Let[Len(chunk(p1).code) - 2, [end_jump \in Any |->
    Let[emit_op_code(p1, "Pop"), [p2 \in Any |->
    Let[parse_precedence(p2, Prec("And")), [p3 \in Any |->
    Let[patch_jump(p3, end_jump), [p4 \in Any |->
        LogLogic(p4, "And", end_jump - 1, Len(chunk(p2).code))]]]]]]]]]]

or_(p) ==
    Let[emit_jump(p, "JumpIfFalse"), [p1 \in Any |->
    Let[Len(chunk(p1).code) - 2, [else_jump \in Any |->
    Let[emit_jump(p1, "Jump"), [p2 \in Any |->
    Let[Len(chunk(p2).code) - 2, [end_jump \in Any |->
    Let[patch_jump(p2, else_jump), [p3 \in Any |->
    Let[emit_op_code(p3, "Pop"), [p4 \in Any |->
    Let[parse_precedence(p4, Prec("Or")), [p5 \in Any |->
    Let[patch_jump(p5, end_jump), [p6 \in Any |->
        LogLogic(p6, "Or", else_jump - 1, Len(chunk(p4).code))]]]]]]]]]]]]]]]]

\* one pass of the loop of argument_list, up to `arg_count += 1`: the sum is
\* given unreduced, 256 being the addition that overflows the u8
argument_iteration(p, arg_count) ==
    Let[expression(p), [p1 \in Any |->
    Let[IF arg_count = U8Max
        THEN error(p1, "Can't have more than 255 arguments")
        ELSE p1, [p2 \in Any |->
        [p |-> p2, arg_count |-> arg_count + 1]]]]]

argument_loop(p, arg_count) ==
    Let[argument_iteration(p, arg_count), [r \in Any |->
    Let[r.arg_count % 256, [n \in Any |->
        IF check(r.p, "Comma")
        THEN Let[advance(r.p), [p3 \in Any |-> argument_loop(p3, n)]]
        ELSE [p |-> r.p, arg_count |-> n]]]]]

argument_list(p) ==
    Let[IF ~check(p, "RightParen")
        THEN argument_loop(p, 0)
        ELSE [p |-> p, arg_count |-> 0], [r \in Any |->
        [p |-> consume(r.p, "RightParen", "Expect ')' after arguments"),
         arg_count |-> r.arg_count]]]

call(p) ==
    Let[argument_list(p), [r \in Any |->
        emit_bytes(r.p, Op("Call"), r.arg_count)]]

prefix_rule(p, typ, can_assign) ==
    Let[RulePrefix(typ), [rule \in Any |->
        CASE rule = "grouping" -> grouping(p)
          [] rule = "unary" -> unary(p)
          [] rule = "variable" -> variable(p, can_assign)
          [] rule = "string" -> string_literal(p)
          [] rule = "number" -> number_literal(p)
          [] rule = "literal" -> literal(p)]]

infix_rule(p, typ) ==
    Let[RuleInfix(typ), [rule \in Any |->
        CASE rule = "call" -> call(p)
          [] rule = "binary" -> binary(p)
          [] rule = "and" -> and_(p)
          [] rule = "or" -> or_(p)]]

infix_loop(p, precedence) ==
    IF RulePrecedence(current(p).typ) >= precedence
    THEN Let[advance(p), [p1 \in Any |->
         Let[infix_rule(p1, previous(p1).typ), [p2 \in Any |->
             infix_loop(p2, precedence)]]]]
    ELSE p

parse_precedence(p, precedence) ==
    Let[advance(p), [p1 \in Any |->
    Let[previous(p1).typ, [typ \in Any |->
        IF RulePrefix(typ) # ""
        THEN Let[precedence <= Prec("Assignment"), [can_assign \in Any |->
             Let[prefix_rule(p1, typ, can_assign), [p2 \in Any |->
             Let[infix_loop(p2, precedence), [p3 \in Any |->
                 IF can_assign /\ check(p3, "Equal")
                 THEN Let[advance(p3), [p4 \in Any |->
                          error(p4, "Invalid assignment target")]]
                 ELSE p3]]]]]]
        ELSE error(p1, "Expect expression")]]]]

\* ------------------------------------------- compiler contexts, functions
\* Parser::init_compiler
init_compiler(p, function_type) ==
    Let[IF function_type = "Script"
        THEN p.memory
        ELSE MemNewFunction(p.memory, previous(p).slice), [mem \in Any |->
    Let[IF function_type = "Script" THEN 0 ELSE Len(p.memory.functions),
        [function \in Any |->
        [p EXCEPT !.memory = mem,
                  !.compiler =
                      [enclosing |-> <<p.compiler>>,
                       function |-> function,
                       function_type |-> function_type,
                       locals |-> <<[name |-> [typ |-> "Fun", line |-> 0,
                                               slice |-> <<>>],
                                     depth |-> Initialized(0)]>>,
                       scope_depth |-> 0,
                       marks |-> <<>>,
                       names |-> <<>>,
                       initializing |-> <<>>]]]]]]

\* Parser::end_compiler without the return to the enclosing compiler
end_compiler_stays(p) ==
    Let[emit_return(p), [p1 \in Any |->
        [p |-> p1, f_id |-> p1.compiler.function]]]

\* Parser::end_compiler: [p, f_id]
end_compiler(p) ==
    Let[emit_return(p), [p1 \in Any |->
        [p |-> IF p1.compiler.enclosing # <<>>
               THEN [p1 EXCEPT !.compiler = p1.compiler.enclosing[1]]
               ELSE p1,
         f_id |-> p1.compiler.function]]]

\* ------------------------------------------------------ error recovery
SyncKeywords == {"Class", "Fun", "Var", "For", "If", "While", "Print", "Return"}

\* One evaluation of the body of synchronize's while loop: "return" when the
\* body returns, "again" when it falls through to the loop test.  The body
\* calls current() and previous() only, so it leaves the parser as it was.
synchronize_body(p) ==
    IF previous(p).typ = "SemiColon" THEN "return"
    ELSE IF current(p).typ \in SyncKeywords THEN "return"
    ELSE "again"

\* Parser::synchronize.  When the loop test holds and the body falls
\* through, the next iteration runs on the same parser state and falls
\* through again: the call never returns, which `hung` records.
synchronize(p) ==
    Let[LogEvent(p, [p EXCEPT !.panic_mode = FALSE], "synchronize"), [p1 \in Any |->
        IF current(p1).typ # "EOF"
        THEN IF synchronize_body(p1) = "return"
             THEN p1
             ELSE [p1 EXCEPT !.hung = TRUE]
        ELSE advance(p1)]]

\* -------------------------------------------------------------- statements
\* A call that did not return (hung) is propagated to the caller unchanged.
RECURSIVE declaration(_), statement(_), block(_), block_loop(_), function(_, _),
          parameter_loop(_, _), if_statement(_), while_statement(_),
          for_statement(_)

print_statement(p) ==
    Let[expression(p), [p1 \in Any |->
    Let[consume(p1, "SemiColon", "Expect ';' after value"), [p2 \in Any |->
        emit_op_code(p2, "Print")]]]]

expression_statement(p) ==
    Let[expression(p), [p1 \in Any |->
    Let[consume(p1, "SemiColon", "Expect ';' after expression"), [p2 \in Any |->
        emit_op_code(p2, "Pop")]]]]

return_statement(p) ==
    Let[IF p.compiler.function_type = "Script"
        THEN error(p, "Can't return from top-level code")
        ELSE p, [p1 \in Any |->
        IF check(p1, "SemiColon")
        THEN Let[advance(p1), [p2 \in Any |-> emit_return(p2)]]
        ELSE Let[expression(p1), [p2 \in Any |->
             Let[consume(p2, "SemiColon", "Expect ':' after return value"),
                 [p3 \in Any |->
                 emit_op_code(p3, "Return")]]]]]]

\* decls records, for a local, the code offset that follows its initializer
\* and the slot (index in locals) the compiler gave it
\* History: parse_variable took the parser from p to q; if it pushed a local,
\* that local's initializer is now being compiled.  (No effect on the
\* compilation.)
NoteInitializing(p, q) ==
    IF Len(q.compiler.locals) > Len(p.compiler.locals)
    THEN [q EXCEPT !.compiler.initializing = <<previous(q).slice>>]
    ELSE q

\* History: a var declaration that pushed a local: the depth of that local
\* when declared (q), when its initializer had been compiled (p2) and when
\* defined (p3).  (No effect on the compilation.)
LogDefinition(p, q, p2, p3) ==
    Let[[p3 EXCEPT !.compiler.initializing = <<>>], [p4 \in Any |->
        IF Len(q.compiler.locals) > Len(p.compiler.locals)
        THEN [p4 EXCEPT !.definitions = @ \cup
                 {[nth |-> Cardinality(@),
                   function |-> p.compiler.function,
                   scope_depth |-> p.compiler.scope_depth,
                   slot |-> Len(q.compiler.locals),
                   declared |-> q.compiler.locals[Len(q.compiler.locals)].depth,
                   compiled |-> p2.compiler.locals[Len(q.compiler.locals)].depth,
                   defined |-> p3.compiler.locals[Len(q.compiler.locals)].depth,
                   locals |-> <<Len(q.compiler.locals), Len(p2.compiler.locals),
                                Len(p3.compiler.locals)>>]}]
        ELSE p4]]

var_declaration(p) ==
    Let[parse_variable(p, "Expect variable name"), [r0 \in Any |->
    Let[[p |-> NoteInitializing(p, r0.p), c |-> r0.c], [r \in Any |->
    Let[IF check(r.p, "Equal")
        THEN Let[advance(r.p), [q \in Any |-> expression(q)]]
        ELSE emit_op_code(r.p, "Nil"), [p1 \in Any |->
    Let[consume(p1, "SemiColon", "Expect ';' after variable declaration"),
        [p2 \in Any |->
    Let[LogDefinition(p, r.p, p2, define_variable(p2, r.c)), [p3 \in Any |->
        IF p3.compiler.scope_depth > 0
        THEN [p3 EXCEPT !.decls = @ \cup
                 {[function |-> p3.compiler.function,
                   at |-> Len(chunk(p3).code),
                   slot |-> Len(p3.compiler.locals) - 1]}]
        ELSE p3]]]]]]]]]]

block_loop(p) ==
    IF ~check(p, "RightBrace") /\ ~check(p, "EOF")
    THEN Let[declaration(p), [p1 \in Any |->
             IF p1.hung THEN p1 ELSE block_loop(p1)]]
    ELSE p

block(p) ==
    Let[block_loop(p), [p1 \in Any |->
        IF p1.hung THEN p1
        ELSE consume(p1, "RightBrace", "Expect '}' after block")]]

\* one pass of the loop over the parameters, up to match_token(Comma):
\* [p, arity]
parameter_iteration(p, arity0) ==
    Let[arity0 + 1, [arity \in Any |->
    Let[IF arity > U8Max
        THEN error_at_current(p, "Can't have more than 255 parameters")
        ELSE p, [p1 \in Any |->
    Let[parse_variable(p1, "Expect parameter name"), [r \in Any |->
        [p |-> define_variable(r.p, r.c), arity |-> arity]]]]]]]

parameter_loop(p, arity0) ==
    Let[parameter_iteration(p, arity0), [r \in Any |->
        IF check(r.p, "Comma")
        THEN Let[advance(r.p), [p3 \in Any |-> parameter_loop(p3, r.arity)]]
        ELSE r]]

\* function() after the parameter list: the body and the function's end
function_body(p3) ==
    Let[consume(p3, "RightParen", "Expect ')' after parameters"), [p4 \in Any |->
    Let[consume(p4, "LeftBrace", "Expect '{' before function body"),
        [p5 \in Any |->
    Let[block(p5), [p6 \in Any |->
        IF p6.hung THEN p6
        ELSE Let[end_compiler(p6), [e \in Any |->
             Let[make_constant(e.p, Function(e.f_id)), [r \in Any |->
                 emit_bytes(r.p, Op("Closure"), r.c)]]]]]]]]]]

\* function() after the loop over the parameters
set_arity(p, arity) ==
    [p EXCEPT !.memory.functions[p.compiler.function + 1].arity = arity]

\* the number of compilers that enclose this one
RECURSIVE Nesting(_)
Nesting(compiler) ==
    IF compiler.enclosing = <<>> THEN 0 ELSE 1 + Nesting(compiler.enclosing[1])

\* History: a call of function() that took the parser from p to q: the
\* compiler before and after, the function created, the code the call added
\* to the chunk of the function that was being compiled at p, with the
\* constant its last byte names, the end of the new function's code, and
\* whether error was called meanwhile.  (No effect on the compilation.)
LogFunction(p, q) ==
    IF q.hung THEN q
    ELSE Let[q.memory.functions[p.compiler.function + 1].chunk, [c \in Any |->
         Let[q.memory.functions[Len(p.memory.functions) + 1].chunk.code,
             [body \in Any |->
         [q EXCEPT !.functions = @ \cup
             {[nth |-> Cardinality(@),
               nesting |-> Nesting(p.compiler),
               before |-> p.compiler,
               after |-> q.compiler,
               f_id |-> Len(p.memory.functions),
               emitted |-> SubSeq(c.code, Len(chunk(p).code) + 1, Len(c.code)),
               constant |-> IF /\ c.code # <<>>
                               /\ c.code[Len(c.code)] < Len(c.constants)
                            THEN <<c.constants[c.code[Len(c.code)] + 1]>>
                            ELSE <<>>,
               body_end |-> SubSeq(body, Len(body) - 1, Len(body)),
               errors |-> Len(q.events) > Len(p.events)]}]]]]]

function(p, function_type) ==
    Let[init_compiler(p, function_type), [p0 \in Any |->
    Let[begin_scope(p0), [p1 \in Any |->
    Let[consume(p1, "LeftParen", "Expect '(' after function name"),
        [p2 \in Any |->
    Let[IF ~check(p2, "RightParen")
        THEN Let[parameter_loop(p2, 0), [r \in Any |-> set_arity(r.p, r.arity)]]
        ELSE p2, [p3 \in Any |->
        LogFunction(p, function_body(p3))]]]]]]]]

fun_declaration(p) ==
    Let[parse_variable(p, "Expect function name"), [r \in Any |->
    Let[mark_initialized(r.p), [p1 \in Any |->
    Let[function(p1, "Function"), [p2 \in Any |->
        IF p2.hung THEN p2 ELSE define_variable(p2, r.c)]]]]]]

\* History: an `if` whose condition starts at offset start, with its
\* JumpIfFalse at `at`, its then-branch in [then, then_end), the Pop of the
\* path that skips it at else_pop and its else-branch in [else, end).
\* (No effect on the code.)
LogIf(p, start, at, then_end, else_pop) ==
    [p EXCEPT !.ifs = @ \cup
        {[function |-> p.compiler.function, start |-> start, at |-> at,
          then |-> at + 4, then_end |-> then_end, else_pop |-> else_pop,
          else |-> else_pop + 1, end |-> Len(chunk(p).code)]}]

if_statement(p) ==
    Let[consume(p, "LeftParen", "Expect '(' after 'if'"), [p1 \in Any |->
    Let[expression(p1), [p2 \in Any |->
    Let[consume(p2, "RightParen", "Expect ')' after condition"), [p3 \in Any |->
    Let[emit_jump(p3, "JumpIfFalse"), [p4 \in Any |->
    Let[Len(chunk(p4).code) - 2, [then_jump \in Any |->
    Let[emit_op_code(p4, "Pop"), [p5 \in Any |->
    Let[statement(p5), [p6 \in Any |->
        IF p6.hung THEN p6 ELSE
    Let[emit_jump(p6, "Jump"), [p7 \in Any |->
    Let[Len(chunk(p7).code) - 2, [else_jump \in Any |->
    Let[patch_jump(p7, then_jump), [p8 \in Any |->
    Let[emit_op_code(p8, "Pop"), [p9 \in Any |->
    Let[IF check(p9, "Else")
        THEN Let[advance(p9), [q \in Any |-> statement(q)]]
        ELSE p9, [p10 \in Any |->
        IF p10.hung THEN p10
        ELSE LogIf(patch_jump(p10, else_jump), Len(chunk(p).code),
                   then_jump - 1, else_jump - 1, Len(chunk(p8).code))
    ]]]]]]]]]]]]]]]]]]]]]]]]

while_statement(p) ==
    Let[Len(chunk(p).code), [loop_start \in Any |->
    Let[consume(p, "LeftParen", "Expect '(' after 'while'"), [p1 \in Any |->
    Let[expression(p1), [p2 \in Any |->
    Let[consume(p2, "RightParen", "Expect ')' after condition"), [p3 \in Any |->
    Let[emit_jump(p3, "JumpIfFalse"), [p4 \in Any |->
    Let[Len(chunk(p4).code) - 2, [exit_jump \in Any |->
    Let[emit_op_code(p4, "Pop"), [p5 \in Any |->
    Let[statement(p5), [p6 \in Any |->
        IF p6.hung THEN p6 ELSE
    Let[emit_loop(p6, loop_start), [p7 \in Any |->
    Let[patch_jump(p7, exit_jump), [p8 \in Any |->
        emit_op_code(p8, "Pop")
    ]]]]]]]]]]]]]]]]]]]]

\* the initializer clause of for_statement
for_initializer(p) ==
    IF check(p, "SemiColon") THEN advance(p)
    ELSE IF check(p, "Var")
    THEN Let[advance(p), [q \in Any |-> var_declaration(q)]]
    ELSE expression_statement(p)

\* the condition clause of for_statement: [p, exit_jump], exit_jump = <<>>
\* (None) or <<offset>>
for_condition(p) ==
    IF ~check(p, "SemiColon")
    THEN Let[expression(p), [p1 \in Any |->
         Let[consume(p1, "SemiColon", "Expect ';' after loop"), [p2 \in Any |->
         Let[emit_jump(p2, "JumpIfFalse"), [p3 \in Any |->
             [p |-> emit_op_code(p3, "Pop"),
              exit_jump |-> <<Len(chunk(p3).code) - 2>>]]]]]]]
    ELSE [p |-> advance(p), exit_jump |-> <<>>]

\* the increment clause of for_statement: [p, loop_start]
for_increment(p, loop_start) ==
    IF ~check(p, "RightParen")
    THEN Let[emit_jump(p, "Jump"), [p1 \in Any |->
         Let[Len(chunk(p1).code) - 2, [body_jump \in Any |->
         Let[Len(chunk(p1).code), [increment_start \in Any |->
         Let[expression(p1), [p2 \in Any |->
         Let[emit_op_code(p2, "Pop"), [p3 \in Any |->
         Let[consume(p3, "RightParen", "Expect ')' after for clauses"),
             [p4 \in Any |->
         Let[emit_loop(p4, loop_start), [p5 \in Any |->
             [p |-> patch_jump(p5, body_jump),
              loop_start |-> increment_start]]]]]]]]]]]]]]]
    ELSE [p |-> advance(p), loop_start |-> loop_start]

\* History: a `for` whose initializer starts at offset init, its condition
\* at cond with its JumpIfFalse at test, its increment at step and its body
\* at body (<<>> for a clause left out).  (No effect on the code.)
LogLoop(p, init, cond, test, step, body) ==
    [p EXCEPT !.loops = @ \cup
        {[function |-> p.compiler.function, init |-> init, cond |-> cond,
          test |-> test, step |-> step, body |-> body]}]

for_statement(p) ==
    Let[begin_scope(p), [p1 \in Any |->
    Let[consume(p1, "LeftParen", "Expect '(' after 'for'"), [p2 \in Any |->
    Let[for_initializer(p2), [p3 \in Any |->
    Let[for_condition(p3), [c \in Any |->
    Let[for_increment(c.p, Len(chunk(p3).code)), [i \in Any |->
    Let[statement(i.p), [p4 \in Any |->
        IF p4.hung THEN p4 ELSE
    Let[emit_loop(p4, i.loop_start), [p5 \in Any |->
    Let[IF c.exit_jump # <<>>
        THEN Let[patch_jump(p5, c.exit_jump[1]), [q \in Any |->
                 emit_op_code(q, "Pop")]]
        ELSE p5, [p6 \in Any |->
    Let[end_scope(p6), [p7 \in Any |->
        LogLoop(p7,
                IF Len(chunk(p3).code) > Len(chunk(p2).code)
                THEN <<Len(chunk(p2).code)>> ELSE <<>>,
                Len(chunk(p3).code),
                IF c.exit_jump # <<>> THEN <<c.exit_jump[1] - 1>> ELSE <<>>,
                IF i.loop_start # Len(chunk(p3).code)
                THEN <<i.loop_start>> ELSE <<>>,
                Len(chunk(i.p).code))
    ]]]]]]]]]]]]]]]]]]

\* stmts records the span of code [start, end) the statement compiled to
statement(p) ==
    Let[Len(chunk(p).code), [start \in Any |->
    Let[IF current(p).typ \in {"Print", "If", "Return", "While", "For",
                               "LeftBrace"}
        THEN current(p).typ ELSE "Expression", [kind \in Any |->
    Let[IF kind = "Expression" THEN p ELSE advance(p), [p0 \in Any |->
    Let[CASE kind = "Print" -> print_statement(p0)
          [] kind = "If" -> if_statement(p0)
          [] kind = "Return" -> return_statement(p0)
          [] kind = "While" -> while_statement(p0)
          [] kind = "For" -> for_statement(p0)
          [] kind = "LeftBrace" ->
               Let[begin_scope(p0), [b0 \in Any |->
               Let[block(b0), [b \in Any |->
                   IF b.hung THEN b ELSE end_scope(b)]]]]
          [] OTHER -> expression_statement(p0), [p1 \in Any |->
        IF p1.hung THEN p1
        ELSE [p1 EXCEPT !.stmts = @ \cup
                 {[function |-> p.compiler.function, kind |-> kind,
                   start |-> start, end |-> Len(chunk(p1).code)]}]
    ]]]]]]]]

declaration(p) ==
    Let[IF check(p, "Fun")
        THEN Let[advance(p), [q \in Any |-> fun_declaration(q)]]
        ELSE IF check(p, "Var")
        THEN Let[advance(p), [q \in Any |-> var_declaration(q)]]
        ELSE statement(p), [p1 \in Any |->
        IF p1.hung THEN p1
        ELSE IF p1.panic_mode
        THEN [synchronize(p1) EXCEPT !.synced = TRUE]
        ELSE [p1 EXCEPT !.synced = FALSE]]]

\* ==================================================================== VM
FramesMax == 64

ClockName == <<"c", "l", "o", "c", "k">>

EmptyGlobals == [k \in {} |-> Nil]

\* HashMap::insert keeping the value of a key that is present
GlobalsInsertIfAbsent(globals, id, val) ==
    [k \in DOMAIN globals \cup {id} |->
        IF k \in DOMAIN globals THEN globals[k] ELSE val]

GlobalsInsert(globals, id, val) ==
    [k \in DOMAIN globals \cup {id} |-> IF k = id THEN val ELSE globals[k]]

\* VM::define_native, for the one native VM::new registers
define_native(v, name) ==
    LET id == Len(v.memory.natives)
        mem == MemNewNative(v.memory, name)
        r == Intern(mem.strings, name)
    IN [v EXCEPT !.memory = [mem EXCEPT !.strings = r.strings],
                 !.globals = GlobalsInsert(@, r.id, NativeFunction(id))]

\* VM::new
VMNew(memory) ==
    define_native([frames |-> <<>>, stack |-> <<>>, globals |-> EmptyGlobals,
                   memory |-> memory, print_output |-> <<>>,
                   vm_error |-> <<>>, stmt_open |-> {},
                   logic_open |-> {}, loop_trace |-> <<>>,
                   if_open |-> {}, line_read |-> <<>>],
                  ClockName)

frame(v) == v.frames[Len(v.frames)]

vm_chunk(v) ==
    v.memory.functions[v.memory.closures[frame(v).closure + 1].function + 1].chunk

push(v, value) == [v EXCEPT !.stack = Append(@, value)]

\* the VM after VM::pop; the value popped is vm_peek(v, 0)
pop(v) == [v EXCEPT !.stack = SubSeq(@, 1, Len(@) - 1)]

vm_peek(v, i) == v.stack[Len(v.stack) - i]

\* Vec::truncate cutting one element more than asked
truncate_one_more(v, len) ==
    IF len - 1 < Len(v.stack) THEN [v EXCEPT !.stack = SubSeq(@, 1, len - 1)] ELSE v

\* Vec::truncate on the value stack
truncate(v, len) ==
    IF len < Len(v.stack) THEN [v EXCEPT !.stack = SubSeq(@, 1, len)] ELSE v

\* InstructionPointer::increment by one whatever the offset
ip_increment_one(v, offset) ==
    [v EXCEPT !.frames[Len(v.frames)].instruction_pointer = @ + 1]

ip_increment(v, offset) ==
    [v EXCEPT !.frames[Len(v.frames)].instruction_pointer = @ + offset]

\* A step of the VM leaves the machine and what `run` returns, "none" while
\* the loop goes on; "Panic" is a Rust panic (index out of bounds, unwrap).
Continue(v) == [vm |-> v, result |-> "none"]
Halt(v, res) == [vm |-> v, result |-> res]

\* VM::runtime_error.  The line is read from lines[ins], ins being the BYTE
\* at ip - 1; indexing past the line table panics before the stack is reset.
\* (line_read is history: the index the line table was read at, the offset
\* ip - 1 and the length of the table.)
runtime_error(v, message) ==
    LET ip == frame(v).instruction_pointer
        ins == vm_chunk(v).code[ip]
        lines == vm_chunk(v).lines
        v1 == [v EXCEPT !.vm_error = Append(@, message),
                        !.line_read = <<[index |-> ins, offset |-> ip - 1,
                                         lines |-> Len(lines)]>>]
        trace_ok ==
            \A i \in 1..Len(v.frames) :
                v.frames[i].instruction_pointer <
                    Len(v.memory.functions[
                            v.memory.closures[v.frames[i].closure + 1].function + 1
                        ].chunk.lines)
    IN IF ins >= Len(lines) \/ ~trace_ok
       THEN Halt(v1, "Panic")
       ELSE Halt([v1 EXCEPT !.stack = <<>>], "RuntimeError")

\* VM::call with the depth check one frame late (frames.len() == 65)
vm_call_overflow_late(v, c_id, arg_count) ==
    LET f_id == v.memory.closures[c_id + 1].function
        arity == v.memory.functions[f_id + 1].arity
    IN IF arg_count # arity
       THEN [r |-> runtime_error(v, <<"Expected", arity, "arguments but got", arg_count>>),
             ok |-> FALSE]
       ELSE IF Len(v.frames) = FramesMax + 1
       THEN [r |-> runtime_error(v, <<"Stack overflow">>), ok |-> FALSE]
       ELSE [r |-> Continue([v EXCEPT !.frames = Append(@,
                        [closure |-> c_id, instruction_pointer |-> 0,
                         slot_start |-> Len(v.stack) - arg_count - 1])]),
             ok |-> TRUE]

\* VM::call with the depth check ahead of the arity check
vm_call_depth_first(v, c_id, arg_count) ==
    LET f_id == v.memory.closures[c_id + 1].function
        arity == v.memory.functions[f_id + 1].arity
    IN IF Len(v.frames) = FramesMax
       THEN [r |-> runtime_error(v, <<"Stack overflow">>), ok |-> FALSE]
       ELSE IF arg_count # arity
       THEN [r |-> runtime_error(v, <<"Expected", arity, "arguments but got", arg_count>>),
             ok |-> FALSE]
       ELSE [r |-> Continue([v EXCEPT !.frames = Append(@,
                        [closure |-> c_id, instruction_pointer |-> 0,
                         slot_start |-> Len(v.stack) - arg_count - 1])]),
             ok |-> TRUE]

\* VM::call with the frame's window starting above the callee
vm_call_slot_off(v, c_id, arg_count) ==
    LET f_id == v.memory.closures[c_id + 1].function
        arity == v.memory.functions[f_id + 1].arity
    IN IF arg_count # arity
       THEN [r |-> runtime_error(v, <<"Expected", arity, "arguments but got", arg_count>>),
             ok |-> FALSE]
       ELSE IF Len(v.frames) = FramesMax
       THEN [r |-> runtime_error(v, <<"Stack overflow">>), ok |-> FALSE]
       ELSE [r |-> Continue([v EXCEPT !.frames = Append(@,
                        [closure |-> c_id, instruction_pointer |-> 0,
                         slot_start |-> Len(v.stack) - arg_count])]),
             ok |-> TRUE]

\* VM::call: r is the VM after the call, ok whether a frame was pushed
vm_call(v, c_id, arg_count) ==
    LET f_id == v.memory.closures[c_id + 1].function
        arity == v.memory.functions[f_id + 1].arity
    IN IF arg_count # arity
       THEN [r |-> runtime_error(v, <<"Expected", arity, "arguments but got", arg_count>>),
             ok |-> FALSE]
       ELSE IF Len(v.frames) = FramesMax
       THEN [r |-> runtime_error(v, <<"Stack overflow">>), ok |-> FALSE]
       ELSE [r |-> Continue([v EXCEPT !.frames = Append(@,
                        [closure |-> c_id, instruction_pointer |-> 0,
                         slot_start |-> Len(v.stack) - arg_count - 1])]),
             ok |-> TRUE]

\* VM::call_value; `clock` is what the native returns (the host's time)
call_value(v, value, arg_count, clock) ==
    CASE value.t = "Closure" -> vm_call(v, value.v, arg_count).r
      [] value.t = "NativeFunction" ->
           LET init_stack == Len(v.stack) - arg_count
               res == Number(clock)
           IN Continue(push(truncate(v, init_stack), res))
      [] OTHER -> runtime_error(v, <<"Can only call functions and classes">>)

\* VM::binary_op, op naming the closure the opcode passes (Divide is the
\* integer quotient: the token streams divide exactly)
binary_op(v, op) ==
    LET b == vm_peek(v, 0)
        a == vm_peek(v, 1)
        v2 == pop(pop(v))
    IN IF a.t = "Number" /\ b.t = "Number"
       THEN Continue(push(v2,
                CASE op = "Greater" -> Bool(a.v > b.v)
                  [] op = "Less" -> Bool(a.v < b.v)
                  [] op = "Subtract" -> Number(a.v - b.v)
                  [] op = "Multiply" -> Number(a.v * b.v)
                  [] op = "Divide" -> Number(IF b.v = 0 THEN 0 ELSE a.v \div b.v)))
       ELSE runtime_error(v2, <<"Operands must be numbers">>)

\* is_falsey taking the number 0 for false as well
is_falsey_zero(value) ==
    CASE value.t = "Nil" -> TRUE
      [] value.t = "Bool" -> ~value.v
      [] value.t = "Number" -> value.v = 0
      [] OTHER -> FALSE

is_falsey(value) ==
    CASE value.t = "Nil" -> TRUE
      [] value.t = "Bool" -> ~value.v
      [] OTHER -> FALSE

\* `{n}` for the integers that model the numbers: the decimal digits
RECURSIVE FormatNatural(_)
FormatNatural(n) ==
    IF n < 10 THEN <<DigitChars[n + 1]>>
    ELSE Append(FormatNatural(n \div 10), DigitChars[(n % 10) + 1])

FormatNumber(n) ==
    IF n < 0 THEN <<"-">> \o FormatNatural(0 - n) ELSE FormatNatural(n)

\* debug::print_value, as the text written for the value
print_value(value, memory) ==
    CASE value.t = "Nil" -> <<"nil">>
      [] value.t = "Bool" -> <<IF value.v THEN "true" ELSE "false">>
      [] value.t = "Number" -> FormatNumber(value.v)
      [] value.t = "String" -> <<"\"">> \o value.v \o <<"\"">>
      [] value.t = "StringId" ->
           <<"\"">> \o memory.strings[value.v + 1] \o <<"\"">>
      [] value.t = "Function" ->
           <<"<fn ">> \o memory.strings[memory.functions[value.v + 1].name + 1]
                      \o <<">">>
      [] value.t = "NativeFunction" ->
           <<"<native fn ">> \o memory.strings[memory.natives[value.v + 1].name + 1]
                             \o <<">">>
      [] value.t = "Closure" ->
           <<"<closure ">>
             \o memory.strings[memory.functions[
                    memory.closures[value.v + 1].function + 1].name + 1]
             \o <<">">>

\* The body of the loop of VM::run for one instruction
Step(v0, clock) ==
    LET ch == vm_chunk(v0)
        ip == frame(v0).instruction_pointer
        byte == ch.code[ip + 1]
        op_code == OpCodeTryFrom(byte)
        v == ip_increment(v0, 1)                 \* after read_op_code
        b1 == ch.code[ip + 2]                    \* read_byte
        short == ch.code[ip + 2] * 256 + ch.code[ip + 3]   \* read_short
        v1 == ip_increment(v0, 2)                \* after reading one operand
        v2 == ip_increment(v0, 3)                \* after read_short
        constant == ch.constants[b1 + 1]         \* read_constant
        op == op_code[1]
    IN IF op_code = <<>> THEN Halt(v, "CompileError")
       ELSE CASE op = "Return" ->
                LET res == vm_peek(v, 0)
                    fr == frame(v)
                    v3 == [pop(v) EXCEPT !.frames = SubSeq(@, 1, Len(@) - 1)]
                IN IF v3.frames = <<>>
                   THEN IF v3.stack = <<>> THEN Halt(v3, "Panic")
                        ELSE Halt(pop(v3), "OK")
                   ELSE Continue(push(truncate(v3, fr.slot_start), res))
         [] op = "Pop" -> Continue(pop(v))
         [] op = "Equal" ->
                Continue(push(pop(pop(v)),
                              Bool(ValueEq(vm_peek(v, 0), vm_peek(v, 1)))))
         [] op \in {"Greater", "Less", "Subtract", "Multiply", "Divide"} ->
                binary_op(v, op)
         [] op = "Add" ->
                LET b == vm_peek(v, 0)
                    a == vm_peek(v, 1)
                    v3 == pop(pop(v))
                IN IF a.t = "String" /\ b.t = "String"
                   THEN LET concat == a.v \o b.v
                            r == Intern(v3.memory.strings, concat)
                        IN Continue(push([v3 EXCEPT !.memory.strings = r.strings],
                                         String(concat, r.id)))
                   ELSE IF a.t = "Number" /\ b.t = "Number"
                   THEN Continue(push(v3, Number(a.v + b.v)))
                   ELSE runtime_error(v3, <<"Operands must be strings or numbers">>)
         [] op = "Not" -> Continue(push(pop(v), Bool(is_falsey(vm_peek(v, 0)))))
         [] op = "Negate" ->
                IF vm_peek(v, 0).t = "Number"
                THEN Continue(push(pop(v), Number(0 - vm_peek(v, 0).v)))
                ELSE runtime_error(pop(v), <<"Operand must be a number">>)
         [] op = "Constant" -> Continue(push(v1, constant))
         [] op = "Nil" -> Continue(push(v, Nil))
         [] op = "True" -> Continue(push(v, Bool(TRUE)))
         [] op = "False" -> Continue(push(v, Bool(FALSE)))
         [] op = "Print" ->
                Continue([pop(v) EXCEPT !.print_output =
                             Append(@, print_value(vm_peek(v, 0), v.memory))])
         [] op = "DefineGlobal" ->
                Continue([pop(v1) EXCEPT !.globals =
                             GlobalsInsert(@, constant.v, vm_peek(v1, 0))])
         [] op = "GetGlobal" ->
                IF constant.v \in DOMAIN v1.globals
                THEN Continue(push(v1, v1.globals[constant.v]))
                ELSE runtime_error(v1, <<"Undefined variable",
                                         v1.memory.strings[constant.v + 1]>>)
         [] op = "SetGlobal" ->
                IF constant.v \in DOMAIN v1.globals
                THEN Continue([v1 EXCEPT !.globals[constant.v] = vm_peek(v1, 0)])
                ELSE runtime_error(v1, <<"Undefined variable'",
                                         v1.memory.strings[constant.v + 1]>>)
         [] op = "GetLocal" ->
                Continue(push(v1, v1.stack[frame(v1).slot_start + b1 + 1]))
         [] op = "SetLocal" ->
                Continue([v1 EXCEPT !.stack[frame(v1).slot_start + b1 + 1] =
                              vm_peek(v1, 0)])
         [] op = "JumpIfFalse" ->
                IF is_falsey(vm_peek(v2, 0))
                THEN Continue(ip_increment(v2, short))
                ELSE Continue(v2)
         [] op = "Jump" -> Continue(ip_increment(v2, short))
         [] op = "Loop" -> Continue(ip_increment(v2, 0 - short))
         [] op = "Call" -> call_value(v1, vm_peek(v1, b1), b1, clock)
         [] op = "Closure" ->
                IF constant.t = "Function"
                THEN Continue(push([v1 EXCEPT !.memory =
                                        MemNewClosure(@, constant.v)],
                                   Closure(Len(v1.memory.closures))))
                ELSE runtime_error(v1, <<"Expected closure">>)

\* The VM that Parser::compile returns: VM::new, the script's closure
\* pushed and called with no arguments
CompiledVM(memory) ==
    LET v == VMNew(memory)
        closure == Len(v.memory.closures)
        v1 == push([v EXCEPT !.memory = MemNewClosure(@, 0)], Closure(closure))
    IN vm_call(v1, closure, 0).r.vm

\* ========================================================= token streams
\* The tokens Scanner::token makes for a source text, all on line 1
Tok(typ, slice) == [typ |-> typ, line |-> 1, slice |-> slice]

Symbols ==
    {<<"LeftParen", <<"(">>>>, <<"RightParen", <<")">>>>,
     <<"LeftBrace", <<"{">>>>, <<"RightBrace", <<"}">>>>,
     <<"Comma", <<",">>>>, <<"Dot", <<".">>>>, <<"Minus", <<"-">>>>,
     <<"Plus", <<"+">>>>, <<"SemiColon", <<";">>>>, <<"Slash", <<"/">>>>,
     <<"Star", <<"*">>>>, <<"Bang", <<"!">>>>, <<"BangEqual", <<"!", "=">>>>,
     <<"Equal", <<"=">>>>, <<"EqualEqual", <<"=", "=">>>>,
     <<"Greater", <<">">>>>, <<"GreaterEqual", <<">", "=">>>>,
     <<"Less", <<"<">>>>, <<"LessEqual", <<"<", "=">>>>}

K(typ) == Tok(typ, (CHOOSE k \in Keywords : k[1] = typ)[2])
S(typ) == Tok(typ, (CHOOSE k \in Symbols : k[1] = typ)[2])
Id(name) == Tok("Identifier", name)
Num(digits) == Tok("Number", digits)
Str(content) == Tok("String", <<"\"">> \o content \o <<"\"">>)
\* an Error token: its slice is the scanner's message, held in one piece
Err(message) == Tok("Error", <<message>>)

\* var a = 1; { var a = 2; { var a = 3; print a; } print a; } print a;
ScopesAndLocals ==
    <<K("Var"), Id(<<"a">>), S("Equal"), Num(<<"1">>), S("SemiColon"),
      S("LeftBrace"), K("Var"), Id(<<"a">>), S("Equal"), Num(<<"2">>),
      S("SemiColon"), S("LeftBrace"), K("Var"), Id(<<"a">>), S("Equal"),
      Num(<<"3">>), S("SemiColon"), K("Print"), Id(<<"a">>), S("SemiColon"),
      S("RightBrace"), K("Print"), Id(<<"a">>), S("SemiColon"),
      S("RightBrace"), K("Print"), Id(<<"a">>), S("SemiColon")>>

\* fun f(x) { var y = x + 1; { var z = y + 1; print z; } print y; } f(1);
FunctionLocals ==
    <<K("Fun"), Id(<<"f">>), S("LeftParen"), Id(<<"x">>), S("RightParen"),
      S("LeftBrace"), K("Var"), Id(<<"y">>), S("Equal"), Id(<<"x">>),
      S("Plus"), Num(<<"1">>), S("SemiColon"), S("LeftBrace"), K("Var"),
      Id(<<"z">>), S("Equal"), Id(<<"y">>), S("Plus"), Num(<<"1">>),
      S("SemiColon"), K("Print"), Id(<<"z">>), S("SemiColon"),
      S("RightBrace"), K("Print"), Id(<<"y">>), S("SemiColon"),
      S("RightBrace"), Id(<<"f">>), S("LeftParen"), Num(<<"1">>),
      S("RightParen"), S("SemiColon")>>

\* { var a = 1; a = 2; print a; }
LocalSet ==
    <<S("LeftBrace"), K("Var"), Id(<<"a">>), S("Equal"), Num(<<"1">>),
      S("SemiColon"), Id(<<"a">>), S("Equal"), Num(<<"2">>), S("SemiColon"),
      K("Print"), Id(<<"a">>), S("SemiColon"), S("RightBrace")>>

\* print clock();
Natives ==
    <<K("Print"), Id(<<"c", "l", "o", "c", "k">>), S("LeftParen"),
      S("RightParen"), S("SemiColon")>>

\* clock(); print 1;
NativeStatement ==
    <<Id(<<"c", "l", "o", "c", "k">>), S("LeftParen"), S("RightParen"),
      S("SemiColon"), K("Print"), Num(<<"1">>), S("SemiColon")>>

\* fun foo() { return "blah"; } print foo();
FunctionReturn ==
    <<K("Fun"), Id(<<"f", "o", "o">>), S("LeftParen"), S("RightParen"),
      S("LeftBrace"), K("Return"), Str(<<"b", "l", "a", "h">>),
      S("SemiColon"), S("RightBrace"), K("Print"), Id(<<"f", "o", "o">>),
      S("LeftParen"), S("RightParen"), S("SemiColon")>>

\* fun foo(t) { return t + t; } fun call(fn, arg) { return fn(arg); } print call(foo, "blah");
HigherOrder ==
    <<K("Fun"), Id(<<"f", "o", "o">>), S("LeftParen"), Id(<<"t">>),
      S("RightParen"), S("LeftBrace"), K("Return"), Id(<<"t">>), S("Plus"),
      Id(<<"t">>), S("SemiColon"), S("RightBrace"), K("Fun"),
      Id(<<"c", "a", "l", "l">>), S("LeftParen"), Id(<<"f", "n">>),
      S("Comma"), Id(<<"a", "r", "g">>), S("RightParen"), S("LeftBrace"),
      K("Return"), Id(<<"f", "n">>), S("LeftParen"), Id(<<"a", "r", "g">>),
      S("RightParen"), S("SemiColon"), S("RightBrace"), K("Print"),
      Id(<<"c", "a", "l", "l">>), S("LeftParen"), Id(<<"f", "o", "o">>),
      S("Comma"), Str(<<"b", "l", "a", "h">>), S("RightParen"),
      S("SemiColon")>>

\* fun bar(a) { print a; } fun foo(b) { bar(b); } foo("blah");
NestedCalls ==
    <<K("Fun"), Id(<<"b", "a", "r">>), S("LeftParen"), Id(<<"a">>),
      S("RightParen"), S("LeftBrace"), K("Print"), Id(<<"a">>),
      S("SemiColon"), S("RightBrace"), K("Fun"), Id(<<"f", "o", "o">>),
      S("LeftParen"), Id(<<"b">>), S("RightParen"), S("LeftBrace"),
      Id(<<"b", "a", "r">>), S("LeftParen"), Id(<<"b">>), S("RightParen"),
      S("SemiColon"), S("RightBrace"), Id(<<"f", "o", "o">>), S("LeftParen"),
      Str(<<"b", "l", "a", "h">>), S("RightParen"), S("SemiColon")>>

\* fun fib(n) { if (n < 2) return n; return fib(n - 2) + fib(n - 1); } print fib(4);
Recursion ==
    <<K("Fun"), Id(<<"f", "i", "b">>), S("LeftParen"), Id(<<"n">>),
      S("RightParen"), S("LeftBrace"), K("If"), S("LeftParen"), Id(<<"n">>),
      S("Less"), Num(<<"2">>), S("RightParen"), K("Return"), Id(<<"n">>),
      S("SemiColon"), K("Return"), Id(<<"f", "i", "b">>), S("LeftParen"),
      Id(<<"n">>), S("Minus"), Num(<<"2">>), S("RightParen"), S("Plus"),
      Id(<<"f", "i", "b">>), S("LeftParen"), Id(<<"n">>), S("Minus"),
      Num(<<"1">>), S("RightParen"), S("SemiColon"), S("RightBrace"),
      K("Print"), Id(<<"f", "i", "b">>), S("LeftParen"), Num(<<"4">>),
      S("RightParen"), S("SemiColon")>>

\* fun fib(n) { if (n < 2) return n; return fib(n - 2) + fib(n - 1); } print fib(10);
Fib10 ==
    <<K("Fun"), Id(<<"f", "i", "b">>), S("LeftParen"), Id(<<"n">>),
      S("RightParen"), S("LeftBrace"), K("If"), S("LeftParen"), Id(<<"n">>),
      S("Less"), Num(<<"2">>), S("RightParen"), K("Return"), Id(<<"n">>),
      S("SemiColon"), K("Return"), Id(<<"f", "i", "b">>), S("LeftParen"),
      Id(<<"n">>), S("Minus"), Num(<<"2">>), S("RightParen"), S("Plus"),
      Id(<<"f", "i", "b">>), S("LeftParen"), Id(<<"n">>), S("Minus"),
      Num(<<"1">>), S("RightParen"), S("SemiColon"), S("RightBrace"),
      K("Print"), Id(<<"f", "i", "b">>), S("LeftParen"), Num(<<"1", "0">>),
      S("RightParen"), S("SemiColon")>>

\* fun f() { f(); } f();
Unbounded ==
    <<K("Fun"), Id(<<"f">>), S("LeftParen"), S("RightParen"), S("LeftBrace"),
      Id(<<"f">>), S("LeftParen"), S("RightParen"), S("SemiColon"),
      S("RightBrace"), Id(<<"f">>), S("LeftParen"), S("RightParen"),
      S("SemiColon")>>

\* fun g(a) { g(a); } g(1);
UnboundedArg ==
    <<K("Fun"), Id(<<"g">>), S("LeftParen"), Id(<<"a">>), S("RightParen"),
      S("LeftBrace"), Id(<<"g">>), S("LeftParen"), Id(<<"a">>),
      S("RightParen"), S("SemiColon"), S("RightBrace"), Id(<<"g">>),
      S("LeftParen"), Num(<<"1">>), S("RightParen"), S("SemiColon")>>

\* fun f(a) { } f();
Arity ==
    <<K("Fun"), Id(<<"f">>), S("LeftParen"), Id(<<"a">>), S("RightParen"),
      S("LeftBrace"), S("RightBrace"), Id(<<"f">>), S("LeftParen"),
      S("RightParen"), S("SemiColon")>>

\* fun f(n) { if (n == @FramesMax_-_1@) f(); f(n + 1); } f(1);
ArityDeep ==
    <<K("Fun"), Id(<<"f">>), S("LeftParen"), Id(<<"n">>), S("RightParen"),
      S("LeftBrace"), K("If"), S("LeftParen"), Id(<<"n">>), S("EqualEqual"),
      Num(FormatNatural(FramesMax - 1)), S("RightParen"), Id(<<"f">>),
      S("LeftParen"), S("RightParen"), S("SemiColon"), Id(<<"f">>),
      S("LeftParen"), Id(<<"n">>), S("Plus"), Num(<<"1">>), S("RightParen"),
      S("SemiColon"), S("RightBrace"), Id(<<"f">>), S("LeftParen"),
      Num(<<"1">>), S("RightParen"), S("SemiColon")>>

\* -nil;
NegateNil ==
    <<S("Minus"), K("Nil"), S("SemiColon")>>

\* print 1 < nil;
LessNil ==
    <<K("Print"), Num(<<"1">>), S("Less"), K("Nil"), S("SemiColon")>>

\* print 1 + "a";
AddMixed ==
    <<K("Print"), Num(<<"1">>), S("Plus"), Str(<<"a">>), S("SemiColon")>>

\* print x;
UndefinedGet ==
    <<K("Print"), Id(<<"x">>), S("SemiColon")>>

\* x = 1;
UndefinedSet ==
    <<Id(<<"x">>), S("Equal"), Num(<<"1">>), S("SemiColon")>>

\* 1();
NotCallable ==
    <<Num(<<"1">>), S("LeftParen"), S("RightParen"), S("SemiColon")>>

\* var x = 0; while (x < 2) { print x; x = x + 1; }
WhileLoop ==
    <<K("Var"), Id(<<"x">>), S("Equal"), Num(<<"0">>), S("SemiColon"),
      K("While"), S("LeftParen"), Id(<<"x">>), S("Less"), Num(<<"2">>),
      S("RightParen"), S("LeftBrace"), K("Print"), Id(<<"x">>),
      S("SemiColon"), Id(<<"x">>), S("Equal"), Id(<<"x">>), S("Plus"),
      Num(<<"1">>), S("SemiColon"), S("RightBrace")>>

\* for (var x = 50; x < 51; x = x + 1) { print x; }
ForLoop ==
    <<K("For"), S("LeftParen"), K("Var"), Id(<<"x">>), S("Equal"),
      Num(<<"5", "0">>), S("SemiColon"), Id(<<"x">>), S("Less"),
      Num(<<"5", "1">>), S("SemiColon"), Id(<<"x">>), S("Equal"),
      Id(<<"x">>), S("Plus"), Num(<<"1">>), S("RightParen"), S("LeftBrace"),
      K("Print"), Id(<<"x">>), S("SemiColon"), S("RightBrace")>>

\* var x = 0; for (var i = 0; i < 3; i = i + 1) { x = x + i; } print x;
ForSum ==
    <<K("Var"), Id(<<"x">>), S("Equal"), Num(<<"0">>), S("SemiColon"),
      K("For"), S("LeftParen"), K("Var"), Id(<<"i">>), S("Equal"),
      Num(<<"0">>), S("SemiColon"), Id(<<"i">>), S("Less"), Num(<<"3">>),
      S("SemiColon"), Id(<<"i">>), S("Equal"), Id(<<"i">>), S("Plus"),
      Num(<<"1">>), S("RightParen"), S("LeftBrace"), Id(<<"x">>), S("Equal"),
      Id(<<"x">>), S("Plus"), Id(<<"i">>), S("SemiColon"), S("RightBrace"),
      K("Print"), Id(<<"x">>), S("SemiColon")>>

\* var x = 0; fun f() { for (var i = 0; i < 3; i = i + 1) { x = x + i; } }
\* f(); print x;
ForSumInFunction ==
    <<K("Var"), Id(<<"x">>), S("Equal"), Num(<<"0">>), S("SemiColon"),
      K("Fun"), Id(<<"f">>), S("LeftParen"), S("RightParen"), S("LeftBrace"),
      K("For"), S("LeftParen"), K("Var"), Id(<<"i">>), S("Equal"),
      Num(<<"0">>), S("SemiColon"), Id(<<"i">>), S("Less"), Num(<<"3">>),
      S("SemiColon"), Id(<<"i">>), S("Equal"), Id(<<"i">>), S("Plus"),
      Num(<<"1">>), S("RightParen"), S("LeftBrace"), Id(<<"x">>), S("Equal"),
      Id(<<"x">>), S("Plus"), Id(<<"i">>), S("SemiColon"), S("RightBrace"),
      S("RightBrace"), Id(<<"f">>), S("LeftParen"), S("RightParen"),
      S("SemiColon"), K("Print"), Id(<<"x">>), S("SemiColon")>>

\* fun f() { for (var i = 0; i < 2; i = i + 1) { print i; } } f();
ForInFunction ==
    <<K("Fun"), Id(<<"f">>), S("LeftParen"), S("RightParen"), S("LeftBrace"),
      K("For"), S("LeftParen"), K("Var"), Id(<<"i">>), S("Equal"),
      Num(<<"0">>), S("SemiColon"), Id(<<"i">>), S("Less"), Num(<<"2">>),
      S("SemiColon"), Id(<<"i">>), S("Equal"), Id(<<"i">>), S("Plus"),
      Num(<<"1">>), S("RightParen"), S("LeftBrace"), K("Print"), Id(<<"i">>),
      S("SemiColon"), S("RightBrace"), S("RightBrace"), Id(<<"f">>),
      S("LeftParen"), S("RightParen"), S("SemiColon")>>

\* if (false) { print "a"; } else { print "b"; }
IfElse ==
    <<K("If"), S("LeftParen"), K("False"), S("RightParen"), S("LeftBrace"),
      K("Print"), Str(<<"a">>), S("SemiColon"), S("RightBrace"), K("Else"),
      S("LeftBrace"), K("Print"), Str(<<"b">>), S("SemiColon"),
      S("RightBrace")>>

\* print true and false; print nil or 1;
AndOr ==
    <<K("Print"), K("True"), K("And"), K("False"), S("SemiColon"),
      K("Print"), K("Nil"), K("Or"), Num(<<"1">>), S("SemiColon")>>

\* var a = 0; false and (a = 1); 1 or (a = 2); true and (a = a + 4); print a;
ShortCircuit ==
    <<K("Var"), Id(<<"a">>), S("Equal"), Num(<<"0">>), S("SemiColon"),
      K("False"), K("And"), S("LeftParen"), Id(<<"a">>), S("Equal"),
      Num(<<"1">>), S("RightParen"), S("SemiColon"),
      Num(<<"1">>), K("Or"), S("LeftParen"), Id(<<"a">>), S("Equal"),
      Num(<<"2">>), S("RightParen"), S("SemiColon"),
      K("True"), K("And"), S("LeftParen"), Id(<<"a">>), S("Equal"),
      Id(<<"a">>), S("Plus"), Num(<<"4">>), S("RightParen"), S("SemiColon"),
      K("Print"), Id(<<"a">>), S("SemiColon")>>

\* print "a" + "a" == "aa"; print "a" == "b"; var s = "a" + "a" + "aa";
\* print s == "aa" + "aa"; print s;
StringEquality ==
    <<K("Print"), Str(<<"a">>), S("Plus"), Str(<<"a">>), S("EqualEqual"),
      Str(<<"a", "a">>), S("SemiColon"),
      K("Print"), Str(<<"a">>), S("EqualEqual"), Str(<<"b">>), S("SemiColon"),
      K("Var"), Id(<<"s">>), S("Equal"), Str(<<"a">>), S("Plus"),
      Str(<<"a">>), S("Plus"), Str(<<"a", "a">>), S("SemiColon"),
      K("Print"), Id(<<"s">>), S("EqualEqual"), Str(<<"a", "a">>), S("Plus"),
      Str(<<"a", "a">>), S("SemiColon"),
      K("Print"), Id(<<"s">>), S("SemiColon")>>

\* print "st" + "ri" + "ng";
StringConcat ==
    <<K("Print"), Str(<<"s", "t">>), S("Plus"), Str(<<"r", "i">>), S("Plus"),
      Str(<<"n", "g">>), S("SemiColon")>>

\* print (10 / 2 - 1) * 3 == 12; print !(2 > 1); print 1 <= 2; print 1 >= 2; print 1 != 1;
Arithmetic ==
    <<K("Print"), S("LeftParen"), Num(<<"1", "0">>), S("Slash"),
      Num(<<"2">>), S("Minus"), Num(<<"1">>), S("RightParen"), S("Star"),
      Num(<<"3">>), S("EqualEqual"), Num(<<"1", "2">>), S("SemiColon"),
      K("Print"), S("Bang"), S("LeftParen"), Num(<<"2">>), S("Greater"),
      Num(<<"1">>), S("RightParen"), S("SemiColon"), K("Print"),
      Num(<<"1">>), S("LessEqual"), Num(<<"2">>), S("SemiColon"), K("Print"),
      Num(<<"1">>), S("GreaterEqual"), Num(<<"2">>), S("SemiColon"),
      K("Print"), Num(<<"1">>), S("BangEqual"), Num(<<"1">>), S("SemiColon")>>

\* var a = 99; { a = 50; } print a;
GlobalAssignment ==
    <<K("Var"), Id(<<"a">>), S("Equal"), Num(<<"9", "9">>), S("SemiColon"),
      S("LeftBrace"), Id(<<"a">>), S("Equal"), Num(<<"5", "0">>),
      S("SemiColon"), S("RightBrace"), K("Print"), Id(<<"a">>),
      S("SemiColon")>>

\* var a = 1; var a = 2; print a;
Redefinition ==
    <<K("Var"), Id(<<"a">>), S("Equal"), Num(<<"1">>), S("SemiColon"),
      K("Var"), Id(<<"a">>), S("Equal"), Num(<<"2">>), S("SemiColon"),
      K("Print"), Id(<<"a">>), S("SemiColon")>>

\* print !0; print !""; print !nil; print !false;
\* if (0) print 1; if ("") print 2; if (nil) print 3;
Truthiness ==
    <<K("Print"), S("Bang"), Num(<<"0">>), S("SemiColon"),
      K("Print"), S("Bang"), Str(<<>>), S("SemiColon"),
      K("Print"), S("Bang"), K("Nil"), S("SemiColon"),
      K("Print"), S("Bang"), K("False"), S("SemiColon"),
      K("If"), S("LeftParen"), Num(<<"0">>), S("RightParen"),
      K("Print"), Num(<<"1">>), S("SemiColon"),
      K("If"), S("LeftParen"), Str(<<>>), S("RightParen"),
      K("Print"), Num(<<"2">>), S("SemiColon"),
      K("If"), S("LeftParen"), K("Nil"), S("RightParen"),
      K("Print"), Num(<<"3">>), S("SemiColon")>>

\* k copies of a token sequence, one after the other
Repeat(toks, k) ==
    [i \in 1..(k * Len(toks)) |-> toks[((i - 1) % Len(toks)) + 1]]

\* print 1 + 1 + 1 + 1;     (12 bytes of code)
PrintSum ==
    <<K("Print"), Num(<<"1">>), S("Plus"), Num(<<"1">>), S("Plus"),
      Num(<<"1">>), S("Plus"), Num(<<"1">>), S("SemiColon")>>

LongBody == Repeat(PrintSum, 25)

\* var i = 0; while (i < 2) { i = i + 1; print 1 + 1 + 1 + 1; ... }
\* if (false) { print 1 + 1 + 1 + 1; ... } print i;
\* with 25 print statements in each block: jumps of more than 255 bytes
LongJumps ==
    <<K("Var"), Id(<<"i">>), S("Equal"), Num(<<"0">>), S("SemiColon"),
      K("While"), S("LeftParen"), Id(<<"i">>), S("Less"), Num(<<"2">>),
      S("RightParen"), S("LeftBrace"),
      Id(<<"i">>), S("Equal"), Id(<<"i">>), S("Plus"), Num(<<"1">>),
      S("SemiColon")>>
    \o LongBody
    \o <<S("RightBrace"),
         K("If"), S("LeftParen"), K("False"), S("RightParen"), S("LeftBrace")>>
    \o LongBody
    \o <<S("RightBrace"), K("Print"), Id(<<"i">>), S("SemiColon")>>

\* if (true) { print "a"; } if (false) { print "b"; }
IfThen ==
    <<K("If"), S("LeftParen"), K("True"), S("RightParen"), S("LeftBrace"),
      K("Print"), Str(<<"a">>), S("SemiColon"), S("RightBrace"),
      K("If"), S("LeftParen"), K("False"), S("RightParen"), S("LeftBrace"),
      K("Print"), Str(<<"b">>), S("SemiColon"), S("RightBrace")>>

\* fun f(c) { if (c) { if (!c) print 1; else print 2; } else print 3; }
\* f(true); f(nil);
IfNested ==
    <<K("Fun"), Id(<<"f">>), S("LeftParen"), Id(<<"c">>), S("RightParen"),
      S("LeftBrace"),
      K("If"), S("LeftParen"), Id(<<"c">>), S("RightParen"), S("LeftBrace"),
      K("If"), S("LeftParen"), S("Bang"), Id(<<"c">>), S("RightParen"),
      K("Print"), Num(<<"1">>), S("SemiColon"),
      K("Else"), K("Print"), Num(<<"2">>), S("SemiColon"),
      S("RightBrace"),
      K("Else"), K("Print"), Num(<<"3">>), S("SemiColon"),
      S("RightBrace"),
      Id(<<"f">>), S("LeftParen"), K("True"), S("RightParen"), S("SemiColon"),
      Id(<<"f">>), S("LeftParen"), K("Nil"), S("RightParen"), S("SemiColon")>>

\* if (true) clock(); else print 1; print 2;
IfNative ==
    <<K("If"), S("LeftParen"), K("True"), S("RightParen"),
      Id(<<"c", "l", "o", "c", "k">>), S("LeftParen"), S("RightParen"),
      S("SemiColon"),
      K("Else"), K("Print"), Num(<<"1">>), S("SemiColon"),
      K("Print"), Num(<<"2">>), S("SemiColon")>>

\* { var a = 1; var a = 2; }
DuplicateLocal ==
    <<S("LeftBrace"),
      K("Var"), Id(<<"a">>), S("Equal"), Num(<<"1">>), S("SemiColon"),
      K("Var"), Id(<<"a">>), S("Equal"), Num(<<"2">>), S("SemiColon"),
      S("RightBrace")>>

\* fun f(a) { var a; }
DuplicateParameter ==
    <<K("Fun"), Id(<<"f">>), S("LeftParen"), Id(<<"a">>), S("RightParen"),
      S("LeftBrace"), K("Var"), Id(<<"a">>), S("SemiColon"), S("RightBrace")>>

\* fun f(a) { { var a = 2; print a; } print a; } f(1);
ShadowedParameter ==
    <<K("Fun"), Id(<<"f">>), S("LeftParen"), Id(<<"a">>), S("RightParen"),
      S("LeftBrace"),
      S("LeftBrace"),
      K("Var"), Id(<<"a">>), S("Equal"), Num(<<"2">>), S("SemiColon"),
      K("Print"), Id(<<"a">>), S("SemiColon"),
      S("RightBrace"),
      K("Print"), Id(<<"a">>), S("SemiColon"),
      S("RightBrace"),
      Id(<<"f">>), S("LeftParen"), Num(<<"1">>), S("RightParen"), S("SemiColon")>>

\* { var a = 1; { var a = a; } }
OwnInitializer ==
    <<S("LeftBrace"),
      K("Var"), Id(<<"a">>), S("Equal"), Num(<<"1">>), S("SemiColon"),
      S("LeftBrace"),
      K("Var"), Id(<<"a">>), S("Equal"), Id(<<"a">>), S("SemiColon"),
      S("RightBrace"), S("RightBrace")>>

\* { var a = 1; var b = a + a; print b; }
InitializerReadsLocal ==
    <<S("LeftBrace"),
      K("Var"), Id(<<"a">>), S("Equal"), Num(<<"1">>), S("SemiColon"),
      K("Var"), Id(<<"b">>), S("Equal"), Id(<<"a">>), S("Plus"), Id(<<"a">>),
      S("SemiColon"),
      K("Print"), Id(<<"b">>), S("SemiColon"),
      S("RightBrace")>>

\* var x = "global";
\* fun outer() { var x = "outer"; fun inner() { print x; } inner(); }
\* outer();
Closures ==
    <<K("Var"), Id(<<"x">>), S("Equal"),
      Str(<<"g", "l", "o", "b", "a", "l">>), S("SemiColon"),
      K("Fun"), Id(<<"o", "u", "t", "e", "r">>), S("LeftParen"),
      S("RightParen"), S("LeftBrace"),
      K("Var"), Id(<<"x">>), S("Equal"),
      Str(<<"o", "u", "t", "e", "r">>), S("SemiColon"),
      K("Fun"), Id(<<"i", "n", "n", "e", "r">>), S("LeftParen"),
      S("RightParen"), S("LeftBrace"),
      K("Print"), Id(<<"x">>), S("SemiColon"),
      S("RightBrace"),
      Id(<<"i", "n", "n", "e", "r">>), S("LeftParen"), S("RightParen"),
      S("SemiColon"),
      S("RightBrace"),
      Id(<<"o", "u", "t", "e", "r">>), S("LeftParen"), S("RightParen"),
      S("SemiColon")>>

\* fun outer() { var x = 1; fun inner() { x = 2; } inner(); print x; }
\* outer();
InnerAssigns ==
    <<K("Fun"), Id(<<"o", "u", "t", "e", "r">>), S("LeftParen"),
      S("RightParen"), S("LeftBrace"),
      K("Var"), Id(<<"x">>), S("Equal"), Num(<<"1">>), S("SemiColon"),
      K("Fun"), Id(<<"i", "n", "n", "e", "r">>), S("LeftParen"),
      S("RightParen"), S("LeftBrace"),
      Id(<<"x">>), S("Equal"), Num(<<"2">>), S("SemiColon"),
      S("RightBrace"),
      Id(<<"i", "n", "n", "e", "r">>), S("LeftParen"), S("RightParen"),
      S("SemiColon"),
      K("Print"), Id(<<"x">>), S("SemiColon"),
      S("RightBrace"),
      Id(<<"o", "u", "t", "e", "r">>), S("LeftParen"), S("RightParen"),
      S("SemiColon")>>

\* { var a = 1; fun f(b) { var c; fun g() { print ; } var d; } print a; }
ErrorInFunction ==
    <<S("LeftBrace"),
      K("Var"), Id(<<"a">>), S("Equal"), Num(<<"1">>), S("SemiColon"),
      K("Fun"), Id(<<"f">>), S("LeftParen"), Id(<<"b">>), S("RightParen"),
      S("LeftBrace"),
      K("Var"), Id(<<"c">>), S("SemiColon"),
      K("Fun"), Id(<<"g">>), S("LeftParen"), S("RightParen"), S("LeftBrace"),
      K("Print"), S("SemiColon"),
      S("RightBrace"),
      K("Var"), Id(<<"d">>), S("SemiColon"),
      S("RightBrace"),
      K("Print"), Id(<<"a">>), S("SemiColon"),
      S("RightBrace")>>

\* print ;
MissingExpression ==
    <<K("Print"), S("SemiColon")>>

\* 1 + ; 2 + ;
TwoErrors ==
    <<Num(<<"1">>), S("Plus"), S("SemiColon"), Num(<<"2">>), S("Plus"),
      S("SemiColon")>>

\* print 1 1; print 2;
ExtraOperand ==
    <<K("Print"), Num(<<"1">>), Num(<<"1">>), S("SemiColon"), K("Print"),
      Num(<<"2">>), S("SemiColon")>>

\* { var a = ; print a; }
ErrorInBlock ==
    <<S("LeftBrace"), K("Var"), Id(<<"a">>), S("Equal"), S("SemiColon"),
      K("Print"), Id(<<"a">>), S("SemiColon"), S("RightBrace")>>


Programs ==
    {ScopesAndLocals,
     FunctionLocals,
     LocalSet,
     Natives,
     NativeStatement,
     FunctionReturn,
     HigherOrder,
     NestedCalls,
     Recursion,
     Fib10,
     Unbounded,
     UnboundedArg,
     Arity,
     ArityDeep,
     NegateNil,
     LessNil,
     AddMixed,
     UndefinedGet,
     UndefinedSet,
     NotCallable,
     WhileLoop,
     ForLoop,
     ForInFunction,
     ForSum,
     ForSumInFunction,
     IfElse,
     AndOr,
     ShortCircuit,
     StringEquality,
     StringConcat,
     Arithmetic,
     GlobalAssignment,
     Redefinition,
     Truthiness,
     LongJumps,
     IfThen,
     IfNested,
     IfNative,
     DuplicateLocal,
     DuplicateParameter,
     ShadowedParameter,
     OwnInitializer,
     InitializerReadsLocal,
     Closures,
     InnerAssigns,
     ErrorInFunction,
     MissingExpression,
     TwoErrors,
     ExtraOperand,
     ErrorInBlock}

\* The tokens the streams of SpecParse are made of
TokenAlphabet ==
    {Num(<<"1">>), Id(<<"a">>), S("SemiColon"), S("Plus"), S("Equal"),
     K("Print"), K("Var"), S("LeftBrace"), S("RightBrace"),
     Err("Unexpected character")}

TokenStreams == UNION {[1..n -> TokenAlphabet] : n \in 0..MaxTokens}

\* ========================================================== specification
\* The statements whose code starts at the instruction the VM is about to
\* execute are entered with the present stack height; the ones that end
\* there were left.  (History kept in vm.stmt_open; no effect on the run.)
StmtTrack(v) ==
    LET d == Len(v.frames)
        fn == v.memory.closures[frame(v).closure + 1].function
        ip == frame(v).instruction_pointer
        entered == {s \in parser.stmts :
                       /\ s.function = fn /\ s.start = ip /\ s.end # ip
                       /\ s.kind # "Return"}
        kept == {r \in v.stmt_open :
                    /\ ~(r.depth = d /\ r.span.function = fn /\ r.span.end = ip)
                    /\ ~(r.depth = d /\ r.span \in entered)}
    IN [v EXCEPT !.stmt_open =
            kept \cup {[depth |-> d, span |-> s, height |-> Len(v.stack)] :
                          s \in entered}]

\* An `and` / `or` whose JumpIfFalse the VM is about to execute is entered
\* with the present stack height and the value of its left operand; `ran`
\* tells whether an instruction of its right operand was executed since.
\* (History kept in vm.logic_open; no effect on the run.)
LogicTrack(v) ==
    LET d == Len(v.frames)
        fn == v.memory.closures[frame(v).closure + 1].function
        ip == frame(v).instruction_pointer
        entered == {l \in parser.logic : l.function = fn /\ l.at = ip}
        kept == {r \in v.logic_open :
                    /\ ~(r.depth = d /\ r.span.function = fn /\ r.span.end = ip)
                    /\ ~(r.depth = d /\ r.span \in entered)}
        InOperand(r) ==
            /\ r.depth = d /\ r.span.function = fn
            /\ r.span.rhs <= ip /\ ip < r.span.end
    IN [v EXCEPT !.logic_open =
            {[r EXCEPT !.ran = @ \/ InOperand(r)] : r \in kept}
            \cup {[depth |-> d, span |-> l, height |-> Len(v.stack),
                    value |-> v.stack[Len(v.stack)], ran |-> FALSE] :
                      l \in entered}]

\* An `if` whose condition the VM is about to execute is entered with the
\* present stack height.  While it is open, the value its JumpIfFalse tests,
\* the Pops of the condition and the instructions of the two branches are
\* noted as the VM comes to execute them.  (History kept in vm.if_open; no
\* effect on the run.)
IfTrack(v) ==
    LET d == Len(v.frames)
        fn == v.memory.closures[frame(v).closure + 1].function
        ip == frame(v).instruction_pointer
        entered == {i \in parser.ifs : i.function = fn /\ i.start = ip}
        kept == {r \in v.if_open :
                    /\ ~(r.depth = d /\ r.span.function = fn /\ r.span.end = ip)
                    /\ ~(r.depth = d /\ r.span \in entered)}
        Here(r) == r.depth = d /\ r.span.function = fn
        Noted(r) ==
            IF ~Here(r) THEN r
            ELSE [r EXCEPT
                    !.value = IF ip = r.span.at
                              THEN <<v.stack[Len(v.stack)]>> ELSE @,
                    !.pops = IF ip \in {r.span.at + 3, r.span.else_pop}
                             THEN @ + 1 ELSE @,
                    !.then_ran = @ \/ (r.span.then <= ip /\ ip < r.span.then_end),
                    !.else_ran = @ \/ (r.span.else <= ip /\ ip < r.span.end)]
    IN [v EXCEPT !.if_open =
            {Noted(r) : r \in kept}
            \cup {[depth |-> d, span |-> i, height |-> Len(v.stack),
                    value |-> <<>>, pops |-> 0, then_ran |-> FALSE,
                    else_ran |-> FALSE] : i \in entered}]

\* The clause of a `for` the VM is about to execute, and at the loop's
\* JumpIfFalse the outcome of the condition, are appended to vm.loop_trace.
\* (History; no effect on the run.)
LoopTrack(v) ==
    LET fn == v.memory.closures[frame(v).closure + 1].function
        ip == frame(v).instruction_pointer
        At(l) == IF l.init = <<ip>> THEN <<"init">>
                 ELSE IF l.cond = ip THEN <<"cond">>
                 ELSE IF l.test = <<ip>>
                 THEN IF is_falsey(v.stack[Len(v.stack)])
                      THEN <<"false">> ELSE <<"true">>
                 ELSE IF l.step = <<ip>> THEN <<"step">>
                 ELSE IF l.body = ip THEN <<"body">>
                 ELSE <<>>
        here == {l \in parser.loops : l.function = fn /\ At(l) # <<>>}
    IN IF here = {} THEN v
       ELSE [v EXCEPT !.loop_trace = @ \o At(CHOOSE l \in here : TRUE)]

StmtDrop(v) ==
    [v EXCEPT !.stmt_open = {r \in @ : r.depth <= Len(v.frames)},
              !.logic_open = {r \in @ : r.depth <= Len(v.frames)},
              !.if_open = {r \in @ : r.depth <= Len(v.frames)}]

Init ==
    /\ pc = "compile"
    /\ tokens \in Programs
    /\ parser = ParserNew(tokens)
    /\ vm = Idle
    /\ interner = Idle
    /\ result = "none"
    /\ source = <<>>
    /\ scanner = ScannerInit
    /\ scanned = <<>>

InitParse ==
    /\ pc = "compile"
    /\ tokens \in TokenStreams
    /\ parser = ParserNew(tokens)
    /\ vm = Idle
    /\ interner = Idle
    /\ result = "none"
    /\ source = <<>>
    /\ scanner = ScannerInit
    /\ scanned = <<>>

\* Parser::compile, up to its loop: the first advance
CompileStart ==
    /\ pc = "compile"
    /\ parser' = advance(parser)
    /\ pc' = "declarations"
    /\ UNCHANGED <<source, scanner, scanned, tokens, vm, interner, result>>

\* One iteration of the loop of Parser::compile: match_token(EOF) fails and
\* declaration() is called.  A declaration whose synchronize never returns
\* leaves the compiler inside that call for ever (pc = "synchronize").
CompileDeclaration ==
    /\ pc = "declarations"
    /\ ~check(parser, "EOF")
    /\ parser' = declaration(parser)
    /\ pc' = IF parser'.hung THEN "synchronize" ELSE "declarations"
    /\ UNCHANGED <<source, scanner, scanned, tokens, vm, interner, result>>

\* The end of Parser::compile and, in interpret, the choice it makes
CompileEnd ==
    /\ pc = "declarations"
    /\ check(parser, "EOF")
    /\ LET e == end_compiler(advance(parser))
       IN /\ parser' = e.p
          /\ IF e.p.had_error
             THEN /\ result' = "CompileError"
                  /\ pc' = "done"
                  /\ vm' = vm
             ELSE /\ result' = "none"
                  /\ pc' = "run"
                  /\ vm' = CompiledVM(e.p.memory)
    /\ UNCHANGED <<source, scanner, scanned, tokens, interner>>

\* One iteration of the loop of VM::run
Run ==
    /\ pc = "run"
    /\ \E clock \in 0..MaxClock :
           LET r == Step(IfTrack(LoopTrack(LogicTrack(StmtTrack(vm)))), clock)
           IN /\ vm' = StmtDrop(r.vm)
              /\ result' = r.result
              /\ pc' = IF r.result = "none" THEN "run" ELSE "done"
    /\ UNCHANGED <<source, scanner, scanned, tokens, parser, interner>>

\* One more iteration of the while loop of synchronize when its body falls
\* through: nothing was changed, so the test and the body give the same again
SynchronizeLoop ==
    /\ pc = "synchronize"
    /\ current(parser).typ # "EOF"
    /\ synchronize_body(parser) = "again"
    /\ UNCHANGED vars

Next ==
    CompileStart \/ CompileDeclaration \/ CompileEnd \/ Run \/ SynchronizeLoop

Spec == Init /\ [][Next]_vars

SpecParse == InitParse /\ [][Next]_vars

\* The interpreter is one thread that always executes its next step
SpecParseLive == SpecParse /\ WF_vars(Next)

\* ============================================================ properties
\* What the VM is about to execute (meaningful while pc = "run")
Running == pc = "run"
CurFunction == vm.memory.closures[frame(vm).closure + 1].function
CurIp == frame(vm).instruction_pointer
CurCode == vm_chunk(vm).code
NextOp == OpCodeTryFrom(CurCode[CurIp + 1])
IsCall == Running /\ NextOp = <<"Call">>
CallArgc == CurCode[CurIp + 2]
Callee == vm.stack[Len(vm.stack) - CallArgc]
CalleeArity ==
    vm.memory.functions[vm.memory.closures[Callee.v + 1].function + 1].arity
IsReturn == Running /\ NextOp = <<"Return">>
StackTop == vm.stack[Len(vm.stack)]

\* C1: the slot the compiler gives a local is the offset from the running
\* frame's slot_start at which its value sits: when the code of a local's
\* declaration has just run, the value on top of the stack is at offset
\* `slot` of the frame; and the nested shadowing blocks of the script print
\* 3, then 2, then 1.
LocalSlotIsStackOffset ==
    /\ Running =>
           \A d \in parser.decls :
               (d.function = CurFunction /\ d.at = CurIp) =>
                   Len(vm.stack) - 1 - frame(vm).slot_start = d.slot
    /\ (tokens = ScopesAndLocals /\ pc = "done") =>
           /\ result = "OK"
           /\ vm.print_output = <<<<"3">>, <<"2">>, <<"1">>>>

\* C2: when the code of a statement other than return has run to its end
\* in the frame that entered it, the value stack is as high as it was when
\* the statement was entered.
StackDiscipline ==
    Running =>
        \A r \in vm.stmt_open :
            (/\ r.depth = Len(vm.frames)
             /\ r.span.function = CurFunction
             /\ r.span.end = CurIp) =>
                Len(vm.stack) = r.height

\* C3: a Call on a native function removes the arguments and the callee and
\* pushes the result: the stack is argc lower than before the Call, below
\* the callee's slot it is unchanged, and the result is in that slot.
NativeCallReplacesCallee ==
    [][(IsCall /\ Callee.t = "NativeFunction") =>
           /\ pc' = "run"
           /\ Len(vm'.stack) = Len(vm.stack) - CallArgc
           /\ vm'.stack[Len(vm'.stack)].t = "Number"
           /\ SubSeq(vm'.stack, 1, Len(vm.stack) - CallArgc - 1)
                  = SubSeq(vm.stack, 1, Len(vm.stack) - CallArgc - 1)]_vars

\* C4: a Call on a closure of matching arity pushes the frame (ip 0,
\* slot_start = stack.len - argc - 1) and leaves the stack and the frames
\* below alone; the Return of that frame pops it, truncates the stack to its
\* slot_start and pushes the result, so the stack is slot_start + 1 high
\* (the height before the Call, less argc), its top is the value returned,
\* and the caller goes on at the byte after the operand of its Call; no
\* other instruction touches a frame below the running one.
CallReturnProtocol ==
    [][/\ (IsCall /\ Callee.t = "Closure" /\ CalleeArity = CallArgc
              /\ Len(vm.frames) < FramesMax) =>
              /\ pc' = "run"
              /\ vm'.frames =
                     Append([vm.frames EXCEPT
                                ![Len(vm.frames)].instruction_pointer = CurIp + 2],
                            [closure |-> Callee.v,
                             instruction_pointer |-> 0,
                             slot_start |-> Len(vm.stack) - CallArgc - 1])
              /\ vm'.stack = vm.stack
       /\ (IsReturn /\ Len(vm.frames) > 1) =>
              /\ pc' = "run"
              /\ vm'.frames = SubSeq(vm.frames, 1, Len(vm.frames) - 1)
              /\ vm'.stack = Append(SubSeq(vm.stack, 1, frame(vm).slot_start),
                                    StackTop)
              /\ LET caller == vm.frames[Len(vm.frames) - 1]
                     code == vm.memory.functions[
                                 vm.memory.closures[caller.closure + 1].function + 1
                             ].chunk.code
                     argc == code[caller.instruction_pointer]
                 IN /\ code[caller.instruction_pointer - 1] = Op("Call")
                    /\ argc = vm.memory.functions[CurFunction + 1].arity
                    /\ Len(vm'.stack) = frame(vm).slot_start + 1
       /\ (Running /\ ~IsReturn /\ pc' = "run") =>
              SubSeq(vm'.frames, 1, Len(vm.frames) - 1)
                  = SubSeq(vm.frames, 1, Len(vm.frames) - 1)]_vars

\* a closure has returned "blah" to the script, which goes on after its Call
ReturnedToCaller ==
    /\ Running
    /\ tokens = FunctionReturn
    /\ Len(vm.frames) = 1
    /\ CurIp >= 2
    /\ CurCode[CurIp - 1] = Op("Call")
    /\ StackTop.t = "String"
    /\ StackTop.v = <<"b", "l", "a", "h">>

\* C5: there are never more than 64 frames; a Call on a closure (of matching
\* arity) made with 64 frames pushes none and ends the run with RuntimeError
\* "Stack overflow", which is how the unbounded recursions end.
FrameCap ==
    [][/\ pc \in {"run", "done"} /\ result # "CompileError" =>
              Len(vm.frames) <= FramesMax
       /\ (IsCall /\ Callee.t = "Closure" /\ CalleeArity = CallArgc
              /\ Len(vm.frames) = FramesMax) =>
              /\ pc' = "done"
              /\ result' = "RuntimeError"
              /\ Len(vm'.frames) = FramesMax
              /\ vm'.vm_error = Append(vm.vm_error, <<"Stack overflow">>)
       /\ (tokens \in {Unbounded, UnboundedArg} /\ pc' = "done") =>
              /\ result' = "RuntimeError"
              /\ vm'.vm_error = <<<<"Stack overflow">>>>]_vars

\* the recursion was stopped at 64 frames
StackOverflowReported ==
    /\ pc = "done"
    /\ result = "RuntimeError"
    /\ Len(vm.frames) = FramesMax
    /\ vm.vm_error = <<<<"Stack overflow">>>>

\* C6: a Call on a closure with argc # arity ends the run with RuntimeError
\* "Expected <arity> arguments but got <argc>" and pushes no frame, however
\* many frames there are: the arity is checked before the depth.
ArityChecked ==
    [][(IsCall /\ Callee.t = "Closure" /\ CalleeArity # CallArgc) =>
           /\ pc' = "done"
           /\ result' = "RuntimeError"
           /\ Len(vm'.frames) = Len(vm.frames)
           /\ vm'.vm_error =
                  Append(vm.vm_error,
                         <<"Expected", CalleeArity, "arguments but got",
                           CallArgc>>)]_vars

\* a call of wrong arity made with 64 frames was reported as such
ArityReportedAtFrameCap ==
    /\ pc = "done"
    /\ result = "RuntimeError"
    /\ Len(vm.frames) = FramesMax
    /\ vm.vm_error = <<<<"Expected", 1, "arguments but got", 0>>>>

\* C7: a run that reported a runtime error has returned RuntimeError with
\* the value stack cleared: it neither crashed nor went on executing.
RuntimeErrorClearsStack ==
    /\ Running => vm.vm_error = <<>>
    /\ (pc = "done" /\ result # "CompileError" /\ vm.vm_error # <<>>) =>
           /\ result = "RuntimeError"
           /\ vm.stack = <<>>

\* C9: a declaration that ended with panic_mode set has synchronize return,
\* with panic_mode cleared, at a statement boundary: the token before is
\* `;`, or the token ahead opens a declaration, or it is EOF.
SynchronizeReturnsAtBoundary ==
    pc \in {"declarations", "synchronize"} =>
        /\ ~parser.hung
        /\ parser.synced =>
               /\ ~parser.panic_mode
               /\ \/ previous(parser).typ = "SemiColon"
                  \/ current(parser).typ \in SyncKeywords \cup {"EOF"}

\* C10: compiling a finite token stream comes to its end, with or without
\* syntax errors: either the run starts or the compile error is returned.
CompilationTerminates == <>(pc \in {"run", "done"})

\* C11: a reported compile error leaves had_error and panic_mode set; a
\* report made while panic_mode is set writes nothing to the sink; had_error
\* never goes back to false; panic_mode implies had_error throughout; and
\* between two errors written to the sink there is a synchronization.
ErrorDiscipline ==
    LET ev == parser.events
        n == Len(ev)
        PanicBefore(i) == IF i = 1 THEN FALSE ELSE ev[i - 1].panic_mode
    IN /\ \A i \in 1..n :
              /\ ev[i].kind = "error" =>
                     /\ ev[i].had_error /\ ev[i].panic_mode
                     /\ ev[i].wrote = (IF PanicBefore(i) THEN 0 ELSE 1)
              /\ ev[i].panic_mode => ev[i].had_error
              /\ \A j \in i + 1..n :
                     /\ ev[i].had_error => ev[j].had_error
                     /\ ev[i].wrote > 0 /\ ev[j].wrote > 0 =>
                            \E k \in i + 1..j - 1 : ev[k].kind = "synchronize"
       /\ parser.panic_mode => parser.had_error
       /\ n > 0 => parser.had_error = ev[n].had_error
       /\ Len(parser.compiler_error) =
              Cardinality({i \in 1..n : ev[i].wrote > 0})

\* Two errors were written, a synchronization apart, and a report made in
\* panic mode was dropped
TwoErrorsOneDropped ==
    /\ Len(parser.compiler_error) = 2
    /\ \E i \in 1..Len(parser.events) :
           /\ parser.events[i].kind = "error"
           /\ parser.events[i].wrote = 0

\* What interpret returned, set against what the compiler reported
ReturnedAsReported ==
    pc \in {"run", "done"} =>
        IF parser.compiler_error # <<>>
        THEN result = "CompileError" /\ vm = Idle
        ELSE result # "CompileError" /\ vm # Idle

\* C12: interpret returns CompileError, with no VM created and nothing
\* executed, if and only if a compile error was reported (the scanner's
\* Error tokens included): once an error is reported the compilation ends in
\* CompileError, and a compilation without one creates the VM and runs it.
CompileErrorIffReported ==
    /\ []ReturnedAsReported
    /\ (parser.compiler_error # <<>>) ~> (result = "CompileError")

VMPlaces ==
    {<<"stack", i, 0>> : i \in 1..Len(vm.stack)}
    \cup {<<"global", g, 0>> : g \in DOMAIN vm.globals}
    \cup UNION {{<<"constant", k, i>> :
                    i \in 1..Len(vm.memory.functions[k].chunk.constants)} :
                k \in 1..Len(vm.memory.functions)}

ValueAt(place) ==
    CASE place[1] = "stack" -> vm.stack[place[2]]
      [] place[1] = "global" -> vm.globals[place[2]]
      [] OTHER -> vm.memory.functions[place[2]].chunk.constants[place[3]]

VMStrings == {ValueAt(place) : place \in {q \in VMPlaces : ValueAt(q).t = "String"}}

\* C15: two string values with the same content, from literals or from Add,
\* point to the same interned storage, and those with different contents do
\* not; Equal on two strings gives true exactly when the contents are equal.
EqualStringsShareStorage ==
    /\ [](Running =>
            \A a, b \in VMStrings :
                /\ vm.memory.strings[a.ref + 1] = a.v
                /\ (a.v = b.v) <=> (a.ref = b.ref))
    /\ [][(/\ Running /\ NextOp = <<"Equal">>
           /\ StackTop.t = "String"
           /\ vm.stack[Len(vm.stack) - 1].t = "String") =>
              /\ Len(vm'.stack) = Len(vm.stack) - 1
              /\ vm'.stack[Len(vm'.stack)] =
                     Bool(StackTop.v = vm.stack[Len(vm.stack) - 1].v)]_vars

\* A concatenation made at run time was compared with a literal of the same
\* content and with a second concatenation, and both compared equal
ConcatenationsComparedEqual ==
    /\ tokens = StringEquality
    /\ pc = "done"
    /\ result = "OK"
    /\ Len(vm.print_output) = 4
    /\ vm.print_output[1] = <<"true">>
    /\ vm.print_output[2] = <<"false">>
    /\ vm.print_output[3] = <<"true">>

\* C16: Print of a string value appends to the print sink one line made of
\* exactly the characters of the string: the concatenation returned through
\* a function passed as an argument prints blahblah, and "st" + "ri" + "ng"
\* prints string.
PrintWritesStringContent ==
    /\ [][(Running /\ NextOp = <<"Print">> /\ StackTop.t = "String") =>
              vm'.print_output = Append(vm.print_output, StackTop.v)]_vars
    /\ [](pc = "done" /\ tokens = HigherOrder =>
              vm.print_output = <<<<"b", "l", "a", "h", "b", "l", "a", "h">>>>)
    /\ [](pc = "done" /\ tokens = StringConcat =>
              vm.print_output = <<<<"s", "t", "r", "i", "n", "g">>>>)

\* The clauses of the for loops run so far follow one another as INIT, then
\* COND, BODY, STEP, COND, ..., the body entered only after a truthy COND and
\* nothing of the loop run after a falsey one
ForClausesInOrder ==
    LET t == vm.loop_trace
    IN \A i \in 1..Len(t) :
           IF i = 1 THEN t[i] = "init"
           ELSE CASE t[i] = "init" -> FALSE
                  [] t[i] = "cond" -> t[i - 1] \in {"init", "step"}
                  [] t[i] = "true" -> t[i - 1] = "cond"
                  [] t[i] = "false" -> t[i - 1] = "cond"
                  [] t[i] = "body" -> t[i - 1] = "true"
                  [] OTHER -> t[i - 1] = "body"

\* C17: a for loop runs INIT once, then COND, BODY, STEP, COND, ..., never
\* STEP before the first BODY, and exits the first time COND is falsey; the
\* variable declared in INIT is read and assigned in COND, STEP and BODY:
\* summing i = 0, 1, 2 into a global prints 3.
ForLoopRunsInOrder ==
    pc \in {"run", "done"} /\ result # "CompileError" =>
        /\ ForClausesInOrder
        /\ pc = "done" /\ tokens = ForSum =>
               /\ result = "OK"
               /\ vm.print_output = <<<<"3">>>>
               /\ vm.loop_trace[Len(vm.loop_trace)] = "false"

\* C18: every call has its own window of the stack.  GetLocal and SetLocal
\* touch a slot of the running frame's window only; no instruction, Return
\* included, changes a slot below the running frame's slot_start, so when a
\* call has returned the caller's slots below it hold what they held before;
\* the windows of nested calls lie one above the other; and fib(10) is 55.
FramesHaveOwnWindows ==
    /\ [][(Running /\ pc' = "run") =>
              LET base == frame(vm).slot_start
                  slot == base + CurCode[CurIp + 2]
              IN /\ SubSeq(vm'.stack, 1, base) = SubSeq(vm.stack, 1, base)
                 /\ NextOp = <<"GetLocal">> =>
                        /\ slot < Len(vm.stack)
                        /\ vm'.stack = Append(vm.stack, vm.stack[slot + 1])
                 /\ NextOp = <<"SetLocal">> =>
                        /\ slot < Len(vm.stack)
                        /\ vm'.stack = [vm.stack EXCEPT ![slot + 1] = StackTop]]_vars
    /\ [](Running =>
            \A i \in 1..Len(vm.frames) - 1 :
                vm.frames[i].slot_start < vm.frames[i + 1].slot_start)
    /\ [](pc = "done" /\ tokens = Fib10 =>
              result = "OK" /\ vm.print_output = <<<<"5", "5">>>>)

\* fib(10) has run through its recursive calls and printed its result
FibonacciPrinted ==
    /\ tokens = Fib10
    /\ pc = "done"
    /\ vm.print_output = <<<<"5", "5">>>>

\* the name a DefineGlobal / GetGlobal / SetGlobal about to run refers to
GlobalName == vm_chunk(vm).constants[CurCode[CurIp + 2] + 1].v

GlobalsStep ==
    /\ (Running /\ NextOp = <<"DefineGlobal">>) =>
           /\ pc' = "run"
           /\ DOMAIN vm'.globals = DOMAIN vm.globals \cup {GlobalName}
           /\ vm'.globals[GlobalName] = StackTop
           /\ \A k \in DOMAIN vm.globals \ {GlobalName} :
                  vm'.globals[k] = vm.globals[k]
           /\ vm'.stack = SubSeq(vm.stack, 1, Len(vm.stack) - 1)
    /\ (Running /\ NextOp = <<"SetGlobal">> /\ GlobalName \in DOMAIN vm.globals) =>
           /\ pc' = "run"
           /\ DOMAIN vm'.globals = DOMAIN vm.globals
           /\ vm'.globals[GlobalName] = StackTop
           /\ \A k \in DOMAIN vm.globals \ {GlobalName} :
                  vm'.globals[k] = vm.globals[k]
           /\ vm'.stack = vm.stack
    /\ (Running /\ NextOp = <<"SetGlobal">> /\ GlobalName \notin DOMAIN vm.globals) =>
           /\ result' = "RuntimeError"
           /\ vm'.globals = vm.globals

\* C24: DefineGlobal inserts or overwrites the entry of the name and pops the
\* value; SetGlobal on a name that has an entry changes that entry only and
\* leaves the value on the stack; SetGlobal on a name with no entry ends the
\* run with RuntimeError and leaves the globals table as it was.
GlobalsTable == [][GlobalsStep]_vars

\* `x = 1;` ended in RuntimeError and no entry was made for x
UndefinedAssignmentRefused ==
    /\ pc = "done"
    /\ tokens = UndefinedSet
    /\ result = "RuntimeError"
    /\ Cardinality(DOMAIN vm.globals) = 1
    /\ vm.vm_error # <<>>

\* the script is about to execute its final Return: one frame is left
FinalReturn == IsReturn /\ Len(vm.frames) = 1

\* the closure Parser::compile pushed before it called the script
EntryClosure == Closure(vm.frames[1].closure)

\* C25: when run returns OK no frame and no value is left; the final Return
\* of the script finds on the stack its result above the entry closure, and
\* nothing else.
RunEndsEmpty ==
    /\ result = "OK" => (vm.frames = <<>> /\ vm.stack = <<>>)
    /\ FinalReturn => vm.stack = <<EntryClosure, Nil>>

\* Nil and Bool(false), and no other value
NilOrFalse(value) == value.t = "Nil" \/ (value.t = "Bool" /\ value.v = FALSE)

\* the 16-bit operand of the jump instruction about to run
JumpOperand == CurCode[CurIp + 2] * 256 + CurCode[CurIp + 3]

TruthStep ==
    /\ (Running /\ NextOp = <<"Not">>) =>
           /\ pc' = "run"
           /\ vm'.stack = Append(SubSeq(vm.stack, 1, Len(vm.stack) - 1),
                                 Bool(NilOrFalse(StackTop)))
    /\ (Running /\ NextOp = <<"JumpIfFalse">>) =>
           /\ pc' = "run"
           /\ vm'.stack = vm.stack
           /\ frame(vm').instruction_pointer =
                  IF NilOrFalse(StackTop) THEN CurIp + 3 + JumpOperand
                  ELSE CurIp + 3

\* C26: is_falsey is true of Nil and Bool(false) and of nothing else, the
\* number 0 and the empty string included; Not replaces the top of the stack
\* by is_falsey of it, and JumpIfFalse jumps on is_falsey of the top of the
\* stack and leaves the stack as it is.
FalseyIsNilOrFalse ==
    /\ [][TruthStep]_vars
    /\ [](Running => \A i \in 1..Len(vm.stack) :
                         is_falsey(vm.stack[i]) <=> NilOrFalse(vm.stack[i]))

\* 0 and "" were negated to false and taken as true by `if`
ZeroAndEmptyStringTruthy ==
    /\ tokens = Truthiness
    /\ pc = "done"
    /\ result = "OK"
    /\ vm.print_output = <<<<"false">>, <<"false">>, <<"true">>, <<"true">>,
                           <<"1">>, <<"2">>>>

\* the forward jumps the compiler patched at the instruction about to run
JumpsHere == {j \in parser.jumps : j.function = CurFunction /\ j.at = CurIp}

ForwardJumpStep ==
    (Running /\ NextOp \in {<<"Jump">>, <<"JumpIfFalse">>}) =>
        /\ pc' = "run"
        /\ Cardinality(JumpsHere) = 1
        /\ \A j \in JumpsHere :
               /\ JumpOperand = j.target - (CurIp + 3)
               /\ frame(vm').instruction_pointer =
                      IF NextOp = <<"Jump">> \/ NilOrFalse(StackTop)
                      THEN j.target ELSE CurIp + 3

\* C27: every Jump / JumpIfFalse the VM executes was patched once by the
\* compiler; its operand is the 16-bit big-endian distance from the byte
\* after the operand to the end of the code at the time of patch_jump, and
\* when the jump is taken the frame's ip becomes exactly that offset.
ForwardJumpsLand == [][ForwardJumpStep]_vars

\* a JumpIfFalse over more than 255 bytes was taken: the VM stands on the
\* Pop after the block it skipped
ForwardJumpLanded ==
    /\ tokens = LongJumps
    /\ Running
    /\ NextOp = <<"Pop">>
    /\ NilOrFalse(StackTop)
    /\ \E j \in parser.jumps :
           /\ j.function = CurFunction
           /\ j.target = CurIp
           /\ j.at + 3 + U8Max < CurIp

\* the lengths of the instructions, operands included
InstructionLen(op) ==
    CASE op \in {"JumpIfFalse", "Jump", "Loop"} -> 3
      [] op \in {"Constant", "DefineGlobal", "GetGlobal", "SetGlobal",
                 "GetLocal", "SetLocal", "Call", "Closure"} -> 2
      [] OTHER -> 1

\* the offset of the instruction after the one decoded at each offset
FollowingInstruction(code) ==
    [a \in 0..Len(code) |->
        IF a >= Len(code) \/ OpCodeTryFrom(code[a + 1]) = <<>>
        THEN Len(code)
        ELSE Min(Len(code), a + InstructionLen(OpCodeTryFrom(code[a + 1])[1]))]

\* the offsets reached from `reached` by following `jump` any number of
\* times, `jump` being doubled at each round
RECURSIVE ReachedBy(_, _)
ReachedBy(jump, reached) ==
    Let[reached \cup {jump[a] : a \in reached}, [further \in Any |->
        IF further = reached THEN reached
        ELSE Let[[a \in DOMAIN jump |-> jump[jump[a]]], [twice \in Any |->
                 \* (the comparison makes TLC tabulate the function once)
                 IF twice = twice THEN ReachedBy(twice, further) ELSE {}]]]]

\* the offsets in `code` at which an instruction starts, decoding from `at`
InstructionStarts(code, at) ==
    ReachedBy(FollowingInstruction(code), {at}) \ {Len(code)}

\* the Loop instructions the compiler emitted at the instruction about to run
BackJumpsHere ==
    {b \in parser.back_jumps : b.function = CurFunction /\ b.at = CurIp}

\* where the loops of the function being executed start over: the condition
\* of a while, the condition of a for, or the increment of a for that has one
LoopHeads ==
    {s.start : s \in {t \in parser.stmts :
                          t.function = CurFunction /\ t.kind = "While"}}
    \cup {IF l.step # <<>> THEN l.step[1] ELSE l.cond :
              l \in {m \in parser.loops : m.function = CurFunction}}
    \cup {l.cond : l \in {m \in parser.loops : m.function = CurFunction}}

BackwardJumpStep ==
    (Running /\ NextOp = <<"Loop">>) =>
        /\ pc' = "run"
        /\ Cardinality(BackJumpsHere) = 1
        /\ \A b \in BackJumpsHere :
               /\ frame(vm').instruction_pointer = b.start
               /\ b.start \in LoopHeads
               /\ b.start \in InstructionStarts(CurCode, 0)

\* C28: every Loop the VM executes was emitted by emit_loop(start), and
\* executing it sets the frame's ip to exactly `start`, which is the first
\* byte of the loop's condition (of the increment, for the Loop that ends the
\* body of a `for` with one) and the start of an instruction.
BackwardJumpsLand == [][BackwardJumpStep]_vars

\* a Loop over more than 255 bytes was executed: the VM stands on the
\* condition of the while again
LoopedBack ==
    /\ tokens = LongJumps
    /\ Running
    /\ vm.print_output # <<>>
    /\ \E b \in parser.back_jumps :
           /\ b.function = CurFunction
           /\ b.start = CurIp
           /\ b.at > CurIp + U8Max

\* the `if` statements whose code has just run to its end in this frame
IfsEnded ==
    {r \in vm.if_open : /\ r.depth = Len(vm.frames)
                        /\ r.span.function = CurFunction
                        /\ r.span.end = CurIp}

\* of the two branches the one chosen by the condition was executed (as far
\* as it has code) and the other was not, and one Pop removed the condition
OneBranchRan(r) ==
    /\ r.value # <<>>
    /\ r.pops = 1
    /\ IF NilOrFalse(r.value[1])
       THEN ~r.then_ran /\ (r.else_ran <=> r.span.else < r.span.end)
       ELSE ~r.else_ran /\ (r.then_ran <=> r.span.then < r.span.then_end)

IfBranches == Running => \A r \in IfsEnded : OneBranchRan(r)

\* C29: when the code of `if (C) S1 [else S2]` has run to its end, S1 was
\* executed and S2 was not if C was truthy, S2 (if there is one) was executed
\* and S1 was not if C was falsey, the condition was popped exactly once, and
\* the stack is as high as it was before the statement.
IfRunsOneBranch ==
    Running => \A r \in IfsEnded :
                   /\ OneBranchRan(r)
                   /\ Len(vm.stack) = r.height

\* a call of resolve_local called error exactly when the name was that of the
\* local whose initializer was being compiled, and that local was the only
\* Uninitialized one
ResolvedAsInitialized(r) ==
    /\ r.refused <=> r.initializing = <<r.name>>
    /\ r.uninitialized = IF r.initializing = <<>> THEN {} ELSE {r.locals}

\* the local of a var declaration was Uninitialized when declared and still
\* when its initializer had been compiled, and Initialized at the depth of
\* its scope when defined
DefinedAfterInitializer(d) ==
    /\ d.declared = Uninitialized
    /\ d.compiled = Uninitialized
    /\ d.defined = Initialized(d.scope_depth)
    /\ d.locals = <<d.slot, d.slot, d.slot>>

\* C32: a local is Uninitialized from its declaration until its initializer
\* has been compiled; a reference to its name resolved in that time calls
\* error("Can't read local variable in its own initializer"), and no other
\* reference does; once defined the local is Initialized at the depth of its
\* scope, and no local is Uninitialized outside its own initializer.
UninitializedInOwnInitializer ==
    /\ \A r \in parser.resolutions : ResolvedAsInitialized(r)
    /\ \A d \in parser.definitions : DefinedAfterInitializer(d)
    /\ \A i \in 1..Len(parser.compiler.locals) :
           parser.compiler.locals[i].depth # Uninitialized
    /\ \A i \in 1..Len(parser.compiler_error) :
           parser.compiler_error[i].message
               = "Can't read local variable in its own initializer"
           => \E r \in parser.resolutions : r.refused

\* `{ var a = 1; { var a = a; } }` was refused at the `a` of the initializer,
\* resolved to the inner local while it alone was Uninitialized, and the
\* inner local was defined afterwards
OwnInitializerRefused ==
    /\ tokens = OwnInitializer
    /\ \E r \in parser.resolutions :
           /\ r.refused /\ r.name = <<"a">> /\ r.arg = <<1>>
           /\ r.uninitialized = {2}
    /\ \E d \in parser.definitions : d.slot = 2 /\ d.defined = Initialized(2)
    /\ \E i \in 1..Len(parser.compiler_error) :
           parser.compiler_error[i].message
               = "Can't read local variable in its own initializer"

\* the instruction emitted for a name is a GetLocal / SetLocal of the newest
\* local of the function being compiled that has the name, if there is one,
\* and otherwise a GetGlobal / SetGlobal of a constant holding the name
ResolvedInOwnFunction(r) ==
    IF r.own # {}
    THEN /\ r.op \in {<<"GetLocal">>, <<"SetLocal">>}
         /\ r.operand + 1 \in r.own
         /\ \A i \in r.own : i <= r.operand + 1
    ELSE /\ r.op \in {<<"GetGlobal">>, <<"SetGlobal">>}
         /\ r.constant # <<>>
         /\ r.constant[1].t = "StringId"
         /\ r.strings[r.constant[1].v + 1] = r.name

\* C33: a name is resolved among the locals of the function being compiled
\* only, newest first: a name that only a local of an enclosing function has
\* compiles to GetGlobal / SetGlobal of that name, never to GetLocal /
\* SetLocal.
ResolutionInOwnFunction ==
    \A r \in parser.references : ResolvedInOwnFunction(r)

\* `print x` in inner(), x being a local of outer() and a global, was
\* compiled to GetGlobal and printed the global
EnclosingLocalReadAsGlobal ==
    /\ tokens = Closures
    /\ \E r \in parser.references :
           /\ r.name = <<"x">> /\ r.enclosing /\ r.own = {}
           /\ r.op = <<"GetGlobal">>
    /\ Running
    /\ vm.print_output = <<Closures[4].slice>>

\* C34: when a runtime error is reported, the line table is read at the
\* offset of the current frame's instruction pointer minus one, and that
\* index is within the bounds of the chunk's line table.
RuntimeErrorLine ==
    (pc = "done" /\ result # "CompileError") =>
        \A i \in 1..Len(vm.line_read) :
            /\ vm.line_read[i].index = vm.line_read[i].offset
            /\ vm.line_read[i].index < vm.line_read[i].lines

\* the instructions whose operand is read as the index of a constant
ConstantOps == {"Constant", "DefineGlobal", "GetGlobal", "SetGlobal", "Closure"}

\* the instruction the VM is about to read is whole and well-formed
FetchInBounds ==
    /\ CurIp < Len(CurCode)
    /\ CurIp \in InstructionStarts(CurCode, 0)
    /\ NextOp # <<>>
    /\ CurIp + InstructionLen(NextOp[1]) <= Len(CurCode)
    /\ NextOp[1] \in ConstantOps =>
           CurCode[CurIp + 2] < Len(vm_chunk(vm).constants)

RunReturnsStep == pc = "run" => result' # "CompileError"

\* C35: while a program that compiled without error runs, the current
\* frame's ip is below the length of its chunk's code and at the first byte
\* of an instruction: the opcode decodes, the operands lie inside the chunk,
\* a constant index is below the number of constants, and run never returns
\* CompileError.
FetchWellFormed ==
    /\ [](Running => FetchInBounds)
    /\ [][RunReturnsStep]_vars

\* the VM stands on a Constant instruction beyond offset 255 of a chunk, in
\* a frame of a called function or of the script
FetchedFarConstant ==
    /\ Running
    /\ CurIp > U8Max
    /\ NextOp = <<"Constant">>
    /\ CurCode[CurIp + 2] > 0
    /\ parser.compiler_error = <<>>

\* the arenas in use: the compiler's until the VM is made, then the VM's
Arenas(p, v) == IF v = Idle THEN p.memory ELSE v.memory

\* sequence t continues sequence s
Continues(s, t) == Len(t) >= Len(s) /\ SubSeq(t, 1, Len(s)) = s

\* the places a Function constant naming function f stands at
FunctionConstants(m, f) ==
    {<<g, k>> \in UNION {{<<g, k>> : k \in 1..Len(m.functions[g].chunk.constants)}
                            : g \in 1..Len(m.functions)} :
        /\ m.functions[g].chunk.constants[k].t = "Function"
        /\ m.functions[g].chunk.constants[k].v = f}

\* ids are dense: strings are stored once each in the order they were first
\* interned, the script is function 0, every other function is the constant
\* of one place, and functions and closures name entries that exist
ArenasDense ==
    LET m == Arenas(parser, vm)
    IN /\ \A i, j \in 1..Len(m.strings) : i # j => m.strings[i] # m.strings[j]
       /\ m.functions # <<>>
       /\ m.strings[m.functions[1].name + 1] = ScriptName
       /\ \A f \in 1..Len(m.functions) : m.functions[f].name < Len(m.strings)
       /\ parser.compiler_error = <<>> =>
              \A f \in 1..Len(m.functions) - 1 :
                  Cardinality(FunctionConstants(m, f)) = 1
       /\ \A c \in 1..Len(m.closures) :
              m.closures[c].function < Len(m.functions)

\* a step removes and renumbers nothing; the Closure opcode, and nothing
\* else while the VM runs, appends one closure, whose id is pushed
ArenasStep ==
    LET m == Arenas(parser, vm)
        n == Arenas(parser', vm')
    IN /\ Continues(m.strings, n.strings)
       /\ Continues(m.closures, n.closures)
       /\ Continues(m.natives, n.natives)
       /\ Len(n.functions) >= Len(m.functions)
       /\ \A f \in 1..Len(m.functions) :
              n.functions[f].name = m.functions[f].name
       /\ Running =>
              IF NextOp = <<"Closure">>
              THEN /\ Len(n.closures) = Len(m.closures) + 1
                   /\ n.closures[Len(n.closures)].function
                          = vm_chunk(vm).constants[CurCode[CurIp + 2] + 1].v
                   /\ vm'.stack = Append(vm.stack, Closure(Len(m.closures)))
              ELSE n.closures = m.closures

\* C37: arena handles are dense and never reused: the k-th distinct string
\* interned has id k-1, the k-th function created has FunctionId k-1 (the
\* script 0), each execution of the Closure opcode appends exactly one
\* closure whose id is the number of closures before it, and no step removes
\* or renumbers an entry.
ArenaHandlesDense ==
    /\ [](pc \in {"compile", "declarations", "synchronize", "run", "done"}
              => ArenasDense)
    /\ [][ArenasStep]_vars

\* the VM runs with three functions compiled and three closures made, the
\* newest of them by the Closure opcode for the newest function
ClosuresAppended ==
    /\ Running
    /\ Len(vm.memory.functions) >= 3
    /\ Len(vm.memory.closures) >= 3
    /\ vm.memory.closures[3].function = 2
    /\ vm.memory.closures[2].function = 1

\* a call of function() left the compiler that was active before it active
\* again and as it was, ended the new function's code with Nil, Return, and
\* added to the chunk of the enclosing function a Closure instruction on a
\* constant holding the new function, and nothing else
ContextRestored(r) ==
    /\ r.after = r.before
    /\ r.body_end = <<Op("Nil"), Op("Return")>>
    /\ Len(r.emitted) = 2
    /\ r.emitted[1] = Op("Closure")
    /\ r.constant # <<>>
    /\ r.constant[1].t = "Function"
    /\ r.constant[1].v = r.f_id
    /\ r.f_id # r.before.function

\* C38: compiling a nested function leaves the enclosing compiler context
\* unchanged: after end_compiler the active context is the one that was
\* active before init_compiler, with the same function id, function type,
\* locals and scope depth, and the Closure instruction goes into the
\* enclosing function's chunk, at any nesting depth and also when the nested
\* body contained errors.
EnclosingContextRestored ==
    \A r \in parser.functions : ContextRestored(r)

\* a function nested in a function, with an error in its body, and the
\* function around it, which holds locals, were both compiled
NestedFunctionWithErrorCompiled ==
    /\ tokens = ErrorInFunction
    /\ \E r \in parser.functions :
           /\ r.nesting = 1 /\ r.errors
           /\ r.before.function_type = "Function"
           /\ Len(r.before.locals) = 4
    /\ \E r \in parser.functions :
           /\ r.nesting = 0 /\ r.errors
           /\ r.before.scope_depth = 1
           /\ Len(r.before.locals) = 2

\* ------------------------------------------------- scanner specification
\* Characters the scanned sources are drawn from: enough to spell the
\* keywords or, for and true, their prefixes and their extensions.
ScanAlphabet == {"o", "r", "f", "t", "u", "e", " "}

Sources == UNION {[1..n -> ScanAlphabet] : n \in 1..MaxSourceLen}

InitScan ==
    /\ pc = "scan"
    /\ source \in Sources
    /\ scanner = ScannerInit
    /\ scanned = <<>>
    /\ tokens = <<>>
    /\ parser = Idle
    /\ vm = Idle
    /\ interner = Idle
    /\ result = "none"

\* One call of Scanner::token, as the parser's advance makes it
ScanToken ==
    /\ pc = "scan"
    /\ LET r == scanner_token(source, scanner)
       IN /\ scanner' = r.sc
          /\ scanned' = Append(scanned, r.tok)
          /\ pc' = IF r.tok.typ = "EOF" THEN "scanned" ELSE "scan"
    /\ UNCHANGED <<source, tokens, parser, vm, interner, result>>

NextScan == ScanToken

SpecScan == InitScan /\ [][NextScan]_vars

\* C8: an alphanumeric lexeme is scanned as keyword K if and only if the
\* lexeme is exactly K; every other alphanumeric lexeme (a proper prefix of
\* a keyword, or a longer word beginning with one) is an Identifier.
KeywordIffExactLexeme ==
    \A i \in 1..Len(scanned) :
        scanned[i].typ \in KeywordTypes \cup {"Identifier"} =>
            /\ \A k \in Keywords :
                   (scanned[i].typ = k[1]) <=> (scanned[i].slice = k[2])

\* ------------------------------------------- string interner specification
MaxInterns == 4      \* number of intern calls made on one interner
MaxNameLen == 2      \* length of the contents interned

\* usize::next_power_of_two: the smallest power of two >= n
RECURSIVE PowerOfTwoFrom(_, _)
PowerOfTwoFrom(n, k) == IF k >= n THEN k ELSE PowerOfTwoFrom(n, 2 * k)

next_power_of_two(n) == PowerOfTwoFrom(n, 1)

\* String::with_capacity: an empty buffer of this capacity
StringWithCapacity(cap) == [cap |-> cap, data |-> <<>>]

\* StringInterner::with_capacity.  `map` holds the entries (key, id) of the
\* HashMap, the keys being references; a reference is the buffer it points
\* into (numbered in the order the buffers were created), its start and its
\* length.
with_capacity(cap) ==
    [map |-> {}, vec |-> <<>>,
     buf |-> StringWithCapacity(next_power_of_two(cap)), full |-> <<>>]

\* What a reference reads in interner i
Deref(i, ref) ==
    LET buffer == IF ref.buf < Len(i.full) THEN i.full[ref.buf + 1] ELSE i.buf
    IN SubSeq(buffer.data, ref.start + 1, ref.start + ref.len)

\* StringInterner::alloc without the start of a new buffer: the string is
\* pushed onto the active buffer whatever its capacity
alloc_in_place(i, name) ==
    [i |-> [i EXCEPT !.buf.data = @ \o name],
     ref |-> [buf |-> Len(i.full), start |-> Len(i.buf.data), len |-> Len(name)]]

\* StringInterner::alloc: [i, ref]
alloc(i, name) ==
    LET cap == i.buf.cap
        i1 == IF cap < Len(i.buf.data) + Len(name)
              THEN [i EXCEPT
                      !.buf = StringWithCapacity(
                                  next_power_of_two(Max(cap, Len(name)) + 1)),
                      !.full = Append(@, i.buf)]
              ELSE i
        start == Len(i1.buf.data)
    IN [i |-> [i1 EXCEPT !.buf.data = @ \o name],
        ref |-> [buf |-> Len(i1.full), start |-> start, len |-> Len(name)]]

\* StringInterner::intern without the lookup of the content in the map
intern_always_allocates(i, name) ==
    LET a == alloc(i, name)
        id == Cardinality(i.map)
    IN [i |-> [a.i EXCEPT !.map = @ \cup {[key |-> a.ref, id |-> id]},
                          !.vec = Append(@, a.ref)],
        id |-> id, ref |-> a.ref]

\* StringInterner::intern: [i, id, ref].  The HashMap finds a key by the
\* content it reads.
intern(i, name) ==
    IF \E e \in i.map : Deref(i, e.key) = name
    THEN LET id == (CHOOSE e \in i.map : Deref(i, e.key) = name).id
         IN [i |-> i, id |-> id, ref |-> i.vec[id + 1]]
    ELSE LET a == alloc(i, name)
             id == Cardinality(i.map)
         IN [i |-> [a.i EXCEPT !.map = @ \cup {[key |-> a.ref, id |-> id]},
                               !.vec = Append(@, a.ref)],
             id |-> id, ref |-> a.ref]

\* StringInterner::lookup
lookup(i, id) == Deref(i, i.vec[id + 1])

InternCapacities == {1, 3, 16}

InternNames == UNION {[1..n -> {"a", "b"}] : n \in 0..MaxNameLen}

\* interner.calls is the history of the intern calls made: the content, the
\* id and the reference returned, and the interner the call left
InitIntern ==
    /\ pc = "intern"
    /\ \E cap \in InternCapacities :
           interner = [strings |-> with_capacity(cap), calls |-> <<>>]
    /\ source = <<>>
    /\ scanner = ScannerInit
    /\ scanned = <<>>
    /\ tokens = <<>>
    /\ parser = Idle
    /\ vm = Idle
    /\ result = "none"

InternCall ==
    /\ pc = "intern"
    /\ Len(interner.calls) < MaxInterns
    /\ \E name \in InternNames :
           LET r == intern(interner.strings, name)
           IN interner' = [strings |-> r.i,
                           calls |-> Append(interner.calls,
                                        [name |-> name, id |-> r.id,
                                         ref |-> r.ref, after |-> r.i])]
    /\ UNCHANGED <<pc, source, scanner, scanned, tokens, parser, vm, result>>

NextIntern == InternCall

SpecIntern == InitIntern /\ [][NextIntern]_vars

\* C14: interning a content interned before returns the same id and the same
\* stored reference and leaves the interner as it was; different contents
\* never get the same id; and every reference returned still reads its
\* content.
InternIdempotentInjective ==
    LET calls == interner.calls
        n == Len(calls)
    IN \A k \in 1..n :
           /\ Deref(interner.strings, calls[k].ref) = calls[k].name
           /\ lookup(interner.strings, calls[k].id) = calls[k].name
           /\ \A j \in 1..k - 1 :
                  /\ (calls[j].name = calls[k].name) <=> (calls[j].id = calls[k].id)
                  /\ calls[j].name = calls[k].name =>
                         /\ calls[j].ref = calls[k].ref
                         /\ calls[k].after = calls[k - 1].after

\* A content was interned again after the buffer it is stored in was
\* replaced by a larger one
InternedAgainAfterGrowth ==
    \E j, k \in 1..Len(interner.calls) :
        /\ j < k
        /\ interner.calls[j].name = interner.calls[k].name
        /\ interner.calls[j].name # <<>>
        /\ Len(interner.calls[j].after.full) < Len(interner.calls[k].after.full)

\* the active buffer holds no more than its capacity: no push reallocated it
WithinCapacity(i) == Len(i.buf.data) <= i.buf.cap

\* every id issued so far reads the content it was issued for
IssuedIdsRead ==
    \A k \in 1..Len(interner.calls) :
        /\ interner.calls[k].id < Len(interner.strings.vec)
        /\ lookup(interner.strings, interner.calls[k].id)
               = interner.calls[k].name

\* a call of intern keeps the retired buffers as they are, retires the active
\* buffer unchanged if it starts a new one, and otherwise only appends to it
BuffersKeptStep ==
    LET i == interner.strings
        j == interner'.strings
    IN /\ Len(j.full) \in {Len(i.full), Len(i.full) + 1}
       /\ SubSeq(j.full, 1, Len(i.full)) = i.full
       /\ Len(j.full) = Len(i.full) + 1 =>
              /\ j.full[Len(j.full)] = i.buf
              /\ Len(i.buf.data) + Len(j.buf.data) > i.buf.cap
       /\ Len(j.full) = Len(i.full) =>
              /\ j.buf.cap = i.buf.cap
              /\ SubSeq(j.buf.data, 1, Len(i.buf.data)) = i.buf.data

\* C36: a string is appended to the active buffer only when the buffer has
\* room for it, a new buffer being started first when it has not, so the
\* active buffer is never reallocated; retired buffers are kept and never
\* modified; and lookup(id) returns the original content for every id
\* issued, after any number of later interns.
InternedReferencesStayValid ==
    /\ [](pc = "intern" => (WithinCapacity(interner.strings) /\ IssuedIdsRead))
    /\ [][BuffersKeptStep]_vars

\* two buffers have been retired, and an id issued into the first of them
\* still reads its content
RetiredBufferStillRead ==
    /\ pc = "intern"
    /\ Len(interner.strings.full) >= 2
    /\ \E k \in 1..Len(interner.calls) :
           /\ interner.calls[k].ref.buf = 0
           /\ interner.calls[k].name # <<>>
           /\ lookup(interner.strings, interner.calls[k].id)
                  = interner.calls[k].name

\* ------------------------------------------------- locals specification
\* The compiler inside a body that declares one local after another:
\*     fun f() { var v1; var v2; ...          { var v1; var v2; ...
\* Each step is one iteration of the loop of Parser::block, a call of
\* declaration(), on the tokens the scanner hands over next.
MaxDeclarations == 258

LocalName(k) == <<"v">> \o FormatNatural(k)

VarDeclarationTokens(k) == <<K("Var"), Id(LocalName(k)), S("SemiColon")>>

FunctionHead ==
    <<K("Fun"), Id(<<"f">>), S("LeftParen"), S("RightParen"), S("LeftBrace")>>

\* declaration() and fun_declaration() and function(), up to the call of block
InFunctionBody ==
    Let[advance(advance(ParserNew(FunctionHead \o VarDeclarationTokens(1)))),
        [p \in Any |->
    Let[parse_variable(p, "Expect function name"), [r \in Any |->
    Let[begin_scope(init_compiler(mark_initialized(r.p), "Function")),
        [p1 \in Any |->
    Let[consume(p1, "LeftParen", "Expect '(' after function name"),
        [p2 \in Any |->
    Let[consume(p2, "RightParen", "Expect ')' after parameters"),
        [p3 \in Any |->
        consume(p3, "LeftBrace", "Expect '{' before function body")]]]]]]]]]]

\* declaration() and statement(), up to the call of block
InScriptBlock ==
    begin_scope(advance(advance(
        ParserNew(<<S("LeftBrace")>> \o VarDeclarationTokens(1)))))

InitLocals ==
    /\ pc = "locals"
    /\ parser \in {InFunctionBody, InScriptBlock}
    /\ tokens = <<>>
    /\ vm = Idle
    /\ interner = Idle
    /\ result = "none"
    /\ source = <<>>
    /\ scanner = ScannerInit
    /\ scanned = <<>>

Declared == Cardinality(parser.decls)

\* One iteration of the loop of Parser::block
DeclareLocal ==
    /\ pc = "locals"
    /\ Declared < MaxDeclarations
    /\ parser' = declaration(
           [parser EXCEPT !.scanner.source =
                              @ \o VarDeclarationTokens(Declared + 2)])
    /\ UNCHANGED <<pc, source, scanner, scanned, tokens, vm, interner, result>>

NextLocals == DeclareLocal

SpecLocals == InitLocals /\ [][NextLocals]_vars

\* slot 0 of a function, which init_compiler reserves
Reserved == IF parser.compiler.function_type = "Script" THEN 0 ELSE 1

\* C19: a body may declare locals until its function holds 256 of them, the
\* reserved slot 0 counted, with no error reported; the declaration after
\* that reports "Too many local variables in function", and the locals list
\* never holds more than 256 entries.
LocalsLimit ==
    pc = "locals" =>
        /\ parser.max_locals <= U8Max + 1
        /\ Len(parser.compiler.locals) <= U8Max + 1
        /\ Declared + Reserved <= U8Max + 1 => parser.compiler_error = <<>>
        /\ Declared + Reserved > U8Max + 1 =>
               /\ parser.compiler_error # <<>>
               /\ \A i \in 1..Len(parser.compiler_error) :
                      parser.compiler_error[i].message
                          = "Too many local variables in function"

\* -------------------------------------------------- jumps specification
\* The compiler at the end of the body of a while statement,
\*     <earlier statements> while (true) <body>
\* with a body whose code is short, or about as long as a jump can span.
\* Its last two steps are emit_loop(loop_start) and patch_jump(exit_jump).
Near == 2

\* the bytes of the code compiled before the while statement
Prefixes == {0, 2}

\* the bytes of the code of the body
Bodies == (0..Near) \cup ((U16Max - 8 - Near)..(U16Max - 4 + Near))

\* code of n bytes, as statements `nil;` compile to: Nil, Pop, Nil, Pop, ...
EmitStatements(p, n) ==
    [p EXCEPT !.memory.functions[p.compiler.function + 1].chunk =
        [@ EXCEPT !.code = @ \o [i \in 1..n |-> IF i % 2 = 1 THEN Op("Nil")
                                                              ELSE Op("Pop")],
                  !.lines = @ \o [i \in 1..n |-> previous(p).line]]]

WhileHead == <<K("While"), S("LeftParen"), K("True"), S("RightParen")>>

\* while_statement up to the end of statement(): m bytes of earlier code,
\* n bytes of body, and a body that may have reported an error
AfterWhileBody(m, n, panicking) ==
    Let[EmitStatements(advance(advance(ParserNew(WhileHead))), m),
        [p \in Any |->
    Let[consume(p, "LeftParen", "Expect '(' after 'while'"), [p1 \in Any |->
    Let[expression(p1), [p2 \in Any |->
    Let[consume(p2, "RightParen", "Expect ')' after condition"), [p3 \in Any |->
    Let[emit_jump(p3, "JumpIfFalse"), [p4 \in Any |->
    Let[emit_op_code(p4, "Pop"), [p5 \in Any |->
    Let[EmitStatements(p5, n), [p6 \in Any |->
        IF panicking THEN error(p6, "Expect expression") ELSE p6]]]]]]]]]]]]]]

InitJumps ==
    /\ \E m \in Prefixes, n \in Bodies, panicking \in BOOLEAN :
           /\ parser = AfterWhileBody(m, n, panicking)
           /\ pc = [at |-> "body", loop_start |-> m, exit_jump |-> m + 2]
    /\ tokens = WhileHead
    /\ vm = Idle
    /\ interner = Idle
    /\ result = "none"
    /\ source = <<>>
    /\ scanner = ScannerInit
    /\ scanned = <<>>

\* while_statement: self.emit_loop(loop_start)
EmitLoop ==
    /\ pc.at = "body"
    /\ parser' = emit_loop(parser, pc.loop_start)
    /\ pc' = [pc EXCEPT !.at = "looped"]
    /\ UNCHANGED <<source, scanner, scanned, tokens, vm, interner, result>>

\* while_statement: self.patch_jump(exit_jump)
PatchJump ==
    /\ pc.at = "looped"
    /\ parser' = patch_jump(parser, pc.exit_jump)
    /\ pc' = [pc EXCEPT !.at = "patched"]
    /\ UNCHANGED <<source, scanner, scanned, tokens, vm, interner, result>>

NextJumps == EmitLoop \/ PatchJump

SpecJumps == InitJumps /\ [][NextJumps]_vars

\* the u16 read from the two bytes at code[at], code[at + 1] (0-based)
ReadShort(code, at) == code[at + 1] * 256 + code[at + 2]

\* error() was called once in the step
ErrorCalled == Len(parser'.events) = Len(parser.events) + 1

\* the step wrote one report, with this message
Reported(message) ==
    /\ Len(parser'.compiler_error) = Len(parser.compiler_error) + 1
    /\ parser'.compiler_error[Len(parser'.compiler_error)].message = message

LoopDistance == Len(chunk(parser).code) + 1 - pc.loop_start + 2

JumpDistance == Len(chunk(parser).code) - pc.exit_jump - 2

EmitLoopStep ==
    (pc.at = "body" /\ pc'.at = "looped") =>
        /\ ErrorCalled <=> LoopDistance > U16Max
        /\ (LoopDistance > U16Max /\ ~parser.panic_mode)
               => Reported("Loop body too large")
        /\ LoopDistance <= U16Max =>
               /\ parser'.compiler_error = parser.compiler_error
               /\ ReadShort(chunk(parser').code, Len(chunk(parser').code) - 2)
                      = LoopDistance

PatchJumpStep ==
    (pc.at = "looped" /\ pc'.at = "patched") =>
        /\ ErrorCalled <=> JumpDistance > U16Max
        /\ (JumpDistance > U16Max /\ ~parser.panic_mode)
               => Reported("Too much code to jump over")
        /\ JumpDistance <= U16Max =>
               /\ parser'.compiler_error = parser.compiler_error
               /\ ReadShort(chunk(parser').code, pc.exit_jump) = JumpDistance

\* C20: patch_jump calls error("Too much code to jump over") exactly when
\* code.len - offset - 2 is more than 0xFFFF, and emit_loop calls
\* error("Loop body too large") exactly when code.len - start + 2, taken
\* after the Loop opcode is written, is more than 0xFFFF; a distance of up
\* to 0xFFFF reports nothing and is read back from the two bytes unchanged.
JumpLimits == [][EmitLoopStep /\ PatchJumpStep]_vars

\* a loop of exactly 0xFFFF was emitted: nothing reported, operand FF FF
LoopOfMaxDistanceEmitted ==
    /\ pc.at = "looped"
    /\ Len(chunk(parser).code) - pc.loop_start = U16Max
    /\ parser.compiler_error = <<>>
    /\ chunk(parser).code[Len(chunk(parser).code) - 1] = 255
    /\ chunk(parser).code[Len(chunk(parser).code)] = 255

\* ---------------------------------------------- constants specification
\* Scripts of n expression statements `7;`, each adding one constant to the
\* script's chunk: as many as the operand byte can name, and two more.
ConstantStatements(n) ==
    [i \in 1..(2 * n) |-> IF i % 2 = 1 THEN Num(<<"7">>) ELSE S("SemiColon")]

ConstantPrograms ==
    {ConstantStatements(U8Max + 1), ConstantStatements(U8Max + 3)}

InitConstants ==
    /\ pc = "compile"
    /\ tokens \in ConstantPrograms
    /\ parser = ParserNew(tokens)
    /\ vm = Idle
    /\ interner = Idle
    /\ result = "none"
    /\ source = <<>>
    /\ scanner = ScannerInit
    /\ scanned = <<>>

NextConstants == CompileStart \/ CompileDeclaration \/ CompileEnd \/ Run

SpecConstants == InitConstants /\ [][NextConstants]_vars

\* the statement `7;` was compiled in the step: Constant, an operand, Pop
ConstantStep ==
    (pc = "declarations" /\ pc' = "declarations") =>
        LET c == Len(chunk(parser).constants)
            at == Len(chunk(parser).code)
            code == chunk(parser').code
        IN /\ Len(chunk(parser').constants) = c + 1
           /\ Len(code) = at + 3
           /\ code[at + 1] = Op("Constant")
           /\ code[at + 3] = Op("Pop")
           /\ IF c <= U8Max
              THEN /\ code[at + 2] = c
                   /\ parser'.compiler_error = parser.compiler_error
              ELSE /\ code[at + 2] \in 0..U8Max
                   /\ Reported("Too many constants in one chunk")

MaxArguments == 257

CallHead == <<Id(<<"f">>), S("LeftParen"), K("Nil")>>

\* parse_precedence up to the call of argument_list
InArgumentList ==
    Let[advance(advance(ParserNew(CallHead))), [p \in Any |->
        advance(variable(p, TRUE))]]

\* pc: where argument_list is, its counter, the build, and as history the
\* number of arguments parsed
InitArguments ==
    /\ \E overflow_checks \in BOOLEAN :
           pc = [at |-> "loop", arg_count |-> 0, args |-> 0,
                 overflow_checks |-> overflow_checks]
    /\ parser = InArgumentList
    /\ tokens = CallHead
    /\ vm = Idle
    /\ interner = Idle
    /\ result = "none"
    /\ source = <<>>
    /\ scanner = ScannerInit
    /\ scanned = <<>>

\* the loop of argument_list after `arg_count += 1`
AfterArgument(r, more) ==
    IF r.arg_count > U8Max /\ pc.overflow_checks
    THEN /\ parser' = r.p
         /\ pc' = [pc EXCEPT !.at = "panicked", !.args = @ + 1]
    ELSE IF more
    THEN /\ parser' = advance(r.p)
         /\ pc' = [pc EXCEPT !.arg_count = r.arg_count % 256, !.args = @ + 1]
    ELSE /\ parser' = emit_bytes(consume(r.p, "RightParen",
                                         "Expect ')' after arguments"),
                                 Op("Call"), r.arg_count % 256)
         /\ pc' = [pc EXCEPT !.at = "called",
                             !.arg_count = r.arg_count % 256, !.args = @ + 1]

\* an argument followed by a comma
ArgumentAndComma ==
    /\ pc.at = "loop"
    /\ pc.args < MaxArguments
    /\ AfterArgument(
           argument_iteration(
               [parser EXCEPT !.scanner.source = @ \o <<S("Comma"), K("Nil")>>],
               pc.arg_count),
           TRUE)
    /\ UNCHANGED <<source, scanner, scanned, tokens, vm, interner, result>>

\* the last argument: the loop is left, and call() emits the instruction
ArgumentAndParen ==
    /\ pc.at = "loop"
    /\ AfterArgument(
           argument_iteration(
               [parser EXCEPT !.scanner.source =
                                  @ \o <<S("RightParen"), S("SemiColon")>>],
               pc.arg_count),
           FALSE)
    /\ UNCHANGED <<source, scanner, scanned, tokens, vm, interner, result>>

NextArguments == ArgumentAndComma \/ ArgumentAndParen

SpecArguments == InitArguments /\ [][NextArguments]_vars

\* the last two bytes of the code are Call n
EndsWithCall(n) ==
    LET code == chunk(parser).code
    IN /\ Len(code) >= 2
       /\ code[Len(code) - 1] = Op("Call")
       /\ code[Len(code)] = n

\* C22: a call with n <= 255 arguments compiles to `Call n` with no error; a
\* call with more than 255 arguments reports "Can't have more than 255
\* arguments" and compilation goes on to its end; the argument counter
\* follows the number of arguments up to 255 and never wraps around.
ArgumentsLimit ==
    /\ pc.at # "panicked"
    /\ pc.arg_count <= U8Max
    /\ pc.arg_count >= Min(pc.args, U8Max)
    /\ (pc.at = "called" /\ pc.args <= U8Max) =>
           /\ parser.compiler_error = <<>>
           /\ EndsWithCall(pc.args)
    /\ pc.args > U8Max =>
           /\ Len(parser.compiler_error) = 1
           /\ parser.compiler_error[1].message
                  = "Can't have more than 255 arguments"

\* --------------------------------------------- parameters specification
\* The compiler inside the parameter list of a function that goes on and on,
\*     fun f(v1, v2, v3, ...
\* one pass of the loop of function() per step; the list may end at any
\* parameter, and the function is then compiled with an empty body.
MaxParameters == 257

ParametersHead ==
    <<K("Fun"), Id(<<"f">>), S("LeftParen"), Id(LocalName(1))>>

\* declaration(), fun_declaration() and function() up to the loop
InParameterList ==
    Let[parse_variable(advance(advance(ParserNew(ParametersHead))),
                       "Expect function name"), [r \in Any |->
    Let[begin_scope(init_compiler(mark_initialized(r.p), "Function")),
        [p1 \in Any |->
        consume(p1, "LeftParen", "Expect '(' after function name")]]]]

\* pc: where function() is, and its counter `arity`
InitParameters ==
    /\ pc = [at |-> "loop", arity |-> 0]
    /\ parser = InParameterList
    /\ tokens = ParametersHead
    /\ vm = Idle
    /\ interner = Idle
    /\ result = "none"
    /\ source = <<>>
    /\ scanner = ScannerInit
    /\ scanned = <<>>

\* a parameter followed by a comma
ParameterAndComma ==
    /\ pc.at = "loop"
    /\ pc.arity < MaxParameters
    /\ LET r == parameter_iteration(
                    [parser EXCEPT !.scanner.source =
                         @ \o <<S("Comma"), Id(LocalName(pc.arity + 2))>>],
                    pc.arity)
       IN /\ parser' = advance(r.p)
          /\ pc' = [pc EXCEPT !.arity = r.arity]
    /\ UNCHANGED <<source, scanner, scanned, tokens, vm, interner, result>>

\* the last parameter: the loop is left, the arity stored, the body compiled
ParameterAndParen ==
    /\ pc.at = "loop"
    /\ LET r == parameter_iteration(
                    [parser EXCEPT !.scanner.source =
                         @ \o <<S("RightParen"), S("LeftBrace"),
                                S("RightBrace")>>],
                    pc.arity)
       IN /\ parser' = function_body(set_arity(r.p, r.arity))
          /\ pc' = [at |-> "declared", arity |-> r.arity]
    /\ UNCHANGED <<source, scanner, scanned, tokens, vm, interner, result>>

NextParameters == ParameterAndComma \/ ParameterAndParen

SpecParameters == InitParameters /\ [][NextParameters]_vars

\* the function `f`, the one function compiled besides the script
DeclaredFunction == parser.memory.functions[Len(parser.memory.functions)]

\* C23: a function with k <= 255 parameters compiles without error, its
\* arity is k and its parameters are the locals of slots 1..k in the order
\* declared; a 256th parameter reports "Can't have more than 255 parameters".
ParametersLimit ==
    /\ pc.arity <= U8Max =>
           /\ parser.compiler_error = <<>>
           /\ pc.at = "loop" =>
                  /\ Len(parser.compiler.locals) = pc.arity + 1
                  /\ \A k \in 1..pc.arity :
                         parser.compiler.locals[k + 1].name.slice = LocalName(k)
           /\ pc.at = "declared" => DeclaredFunction.arity = pc.arity
    /\ pc.arity > U8Max =>
           \E i \in 1..Len(parser.compiler_error) :
               parser.compiler_error[i].message
                   = "Can't have more than 255 parameters"

\* ------------------------------------------------- scopes specification
\* The compiler inside a body that declares one local after another and then
\* holds a nested block:
\*     fun f() { var v1; ... var vk; { var w1; var w2; } }
\*     { var v1; ... var vk; { var w1; var w2; } }
\* Each step is one iteration of the loop of Parser::block, a call of
\* declaration(), on the tokens the scanner hands over next.
MaxBlockLocals == 2

BlockTokens(n) ==
    <<S("LeftBrace")>>
    \o (IF n >= 1 THEN <<K("Var"), Id(<<"w", "1">>), S("SemiColon")>> ELSE <<>>)
    \o (IF n >= 2 THEN <<K("Var"), Id(<<"w", "2">>), S("SemiColon")>> ELSE <<>>)
    \o (IF n >= 3 THEN <<K("Var"), Id(<<"w", "3">>), S("SemiColon")>> ELSE <<>>)
    \o <<S("RightBrace")>>

\* a nested block that declares a local and then one named as the local the
\* enclosing body declared last:  { var w1; var vk; }
ShadowingBlock(k) ==
    <<S("LeftBrace"), K("Var"), Id(<<"w", "1">>), S("SemiColon"),
      K("Var"), Id(LocalName(k)), S("SemiColon"), S("RightBrace")>>

InitScopes ==
    /\ pc = "scopes"
    /\ parser \in {InFunctionBody, InScriptBlock}
    /\ tokens = <<>>
    /\ vm = Idle
    /\ interner = Idle
    /\ result = "none"
    /\ source = <<>>
    /\ scanner = ScannerInit
    /\ scanned = <<>>

\* One iteration of the loop of Parser::block: a declaration of the body,
\* with another declaration to follow
DeclareOuter ==
    /\ pc = "scopes"
    /\ Declared < MaxDeclarations
    /\ parser' = declaration(
           [parser EXCEPT !.scanner.source =
                              @ \o VarDeclarationTokens(Declared + 2)])
    /\ UNCHANGED <<pc, source, scanner, scanned, tokens, vm, interner, result>>

\* One iteration of the loop of Parser::block: a declaration of the body,
\* with a nested block to follow
DeclareBeforeBlock ==
    /\ pc = "scopes"
    /\ \E blk \in {BlockTokens(n) : n \in 0..MaxBlockLocals}
                     \cup {ShadowingBlock(Declared + 1)} :
           parser' = declaration(
               [parser EXCEPT !.scanner.source = @ \o blk])
    /\ pc' = "block"
    /\ UNCHANGED <<source, scanner, scanned, tokens, vm, interner, result>>

\* One iteration of the loop of Parser::block: the nested block, from
\* begin_scope to end_scope
NestedBlock ==
    /\ pc = "block"
    /\ parser' = declaration(
           [parser EXCEPT !.scanner.source = @ \o <<S("RightBrace")>>])
    /\ pc' = "exited"
    /\ UNCHANGED <<source, scanner, scanned, tokens, vm, interner, result>>

NextScopes == DeclareOuter \/ DeclareBeforeBlock \/ NestedBlock

SpecScopes == InitScopes /\ [][NextScopes]_vars

\* the number of locals a scope declared: those added to the list since it
\* began
DeclaredInScope(e) == Len(e.before) - Len(e.enclosing)

Pops(n) == [i \in 1..n |-> Op("Pop")]

ExitedAsDeclared(e) ==
    /\ DeclaredInScope(e) >= 0
    /\ e.emitted = Pops(DeclaredInScope(e))
    /\ e.after = e.enclosing

\* C30: every exit of a scope that declared n locals emitted exactly n Pop
\* instructions and left the locals list exactly as it was when the scope
\* began: the n locals removed, the locals of the enclosing scopes (and the
\* function's slot 0) in place with their depths unchanged.
ScopePop == \A e \in parser.scope_exits : ExitedAsDeclared(e)

\* a call of declare_variable did as the scopes require: at global scope
\* nothing; in a scope, an error exactly when a local of that same scope has
\* the name, and otherwise (the list not being full) a new local, the newest
DeclaredAsScoped(d) ==
    /\ d.depth = 0 => (~d.refused /\ d.pushed = 0)
    /\ d.depth > 0 => (d.refused <=> d.same_scope)
    /\ (d.depth > 0 /\ ~d.same_scope /\ ~d.was_full) =>
           (d.pushed = 1 /\ d.newest)

\* C31: declaring a name that a local of the same scope already has
\* (parameters included) is reported as an error; declaring a name that only
\* locals of enclosing scopes have is accepted and adds a local that shadows
\* them; at global scope declare_variable adds no local and reports nothing.
DuplicateInScopeRefused ==
    \A d \in parser.declarations : DeclaredAsScoped(d)

====
